---- MODULE Spec2Model ----
(***************************************************************************)
(* A model of buildvault's task graph execution engine (package pkg):      *)
(* the Task / Dependency / Artifact data model, the fingerprint            *)
(* (generateHash / generateContainerName), the cycle detector              *)
(* (isCircularDependencyFree), the artifact transfer between containers    *)
(* (copyBetweenContainers) and the executor (Execute and its helpers),     *)
(* running against a model of the Docker engine.                           *)
(*                                                                         *)
(* Strings are sequences of one-character strings, so that concatenation,  *)
(* prefixes, path splitting and JSON quoting are computed, not assumed.    *)
(***************************************************************************)
EXTENDS Integers, Sequences, FiniteSets, TLC

VARIABLES
    tasks,       \* the heap of Task structs: task pointer -> Task
    prev,        \* the heap as it was before the caller's last edit
    edit,        \* the caller's last edit of a task definition
    nEdits,      \* how many edits the caller has made
    names,       \* task pointer -> <<generateContainerName()>> of the current heap
    namesBefore, \* the same, as computed before the last edit
    cycleFree,   \* task pointer -> <<isCircularDependencyFree(ctx, [])>>, once called
    seen,        \* task pointer -> the calls that check made, each with the path it got
    containers,  \* Docker: container id -> container, in order of creation
    images,      \* Docker: the images present locally
    pending,     \* Docker: the mkdir execs started and not yet run
    stack,       \* the call stack of Execute: one frame per active call
    roots,       \* the root tasks the caller has still to Execute
    results,     \* what the caller's Execute calls returned, in order
    nCalls,      \* how many Execute calls were made
    failures,    \* how many provider calls failed for reasons of the daemon
    events,      \* history: the provider operations issued, in order
    calls,       \* history: call -> its task, container and outcome
    procs,       \* the goroutine that runs and the one that waits, with its stack
    archive,     \* the entries of the tar stream handed to ExtractFileFromTar
    host,        \* the files and directories of the host
    destPath,    \* the destination handed to ExtractFileFromTar
    extracted    \* <<what ExtractFileFromTar returned>>, once called

hashVars == <<prev, edit, nEdits, names, namesBefore>>
cycleVars == <<cycleFree, seen>>
dockerVars == <<containers, images, pending>>
execVars == <<stack, roots, results, nCalls, failures, events, calls>>
raceVars == <<procs>>
extractVars == <<archive, host, destPath, extracted>>
vars == <<tasks, hashVars, cycleVars, dockerVars, execVars, raceVars, extractVars>>

\* Nothing is executing and Docker holds nothing.
ExecIdle ==
    /\ containers = <<>>
    /\ images = {}
    /\ pending = {}
    /\ stack = <<>>
    /\ roots = <<>>
    /\ results = <<>>
    /\ nCalls = 0
    /\ failures = 0
    /\ events = <<>>
    /\ calls = <<>>

\* One goroutine, and nothing to extract.
OthersIdle ==
    /\ procs = <<>>
    /\ archive = <<>>
    /\ host = [files |-> {}, dirs |-> {}]
    /\ destPath = <<>>
    /\ extracted = <<>>

----------------------------------------------------------------------------
(* Strings *)

S1(a) == <<a>>
S2(a, b) == <<a, b>>
S3(a, b, c) == <<a, b, c>>

\* The concatenation of a sequence of strings, in order.
RECURSIVE Concat(_)
Concat(ss) == IF ss = <<>> THEN <<>> ELSE Head(ss) \o Concat(Tail(ss))

\* "No result yet" in a result variable; a result r is held as <<r>>.
NoResult == <<>>

----------------------------------------------------------------------------
(* Data model: Task, Dependency, Artifact *)

\* A Go slice of strings: nil, or a (possibly empty) sequence.
NilSlice == [isNil |-> TRUE, elems |-> <<>>]

StringSlice(ss) == [isNil |-> FALSE, elems |-> ss]

Artifact(from, to) == [From |-> from, To |-> to]

\* Dependency.Task is a pointer: an index into the heap.
Dependency(t, arts) == [Task |-> t, Artifacts |-> arts]

Task(name, image, cmds, deps) ==
    [Name |-> name, BaseImage |-> image, Commands |-> cmds,
     Dependencies |-> deps, containerID |-> 0]

----------------------------------------------------------------------------
(* Fingerprint Engine *)

\* encoding/json's quoting of one character of a string: the quote and the
\* backslash are escaped, the other characters used here pass through.
jsonEscape(c) ==
    IF c = "\"" THEN <<"\\", "\"">>
    ELSE IF c = "\\" THEN <<"\\", "\\">>
    ELSE <<c>>

jsonString(s) ==
    <<"\"">> \o Concat([i \in 1..Len(s) |-> jsonEscape(s[i])]) \o <<"\"">>

\* json.Marshal of a []string: null for a nil slice, else ["..","..",...].
RECURSIVE jsonElems(_)
jsonElems(ss) ==
    IF ss = <<>> THEN <<>>
    ELSE IF Len(ss) = 1 THEN jsonString(ss[1])
    ELSE jsonString(ss[1]) \o <<",">> \o jsonElems(Tail(ss))

jsonMarshal(slice) ==
    IF slice.isNil THEN <<"n", "u", "l", "l">>
    ELSE <<"[">> \o jsonElems(slice.elems) \o <<"]">>

\* A fingerprint that leaves the From path out.
artifactBytesToOnly(arts) ==
    Concat([i \in 1..Len(arts) |-> arts[i].To])

\* What the inner loop writes to the hasher for one dependency's artifacts:
\* To, then From, of each artifact in order, with nothing between them.
artifactBytes(arts) ==
    Concat([i \in 1..Len(arts) |-> arts[i].To \o arts[i].From])

\* A fingerprint that also hashes the upstream task's BaseImage.
dependencyBytesWithImage(ts, deps) ==
    Concat([i \in 1..Len(deps) |->
              ts[deps[i].Task].Name \o ts[deps[i].Task].BaseImage
                  \o Concat([a \in 1..Len(deps[i].Artifacts) |->
                        deps[i].Artifacts[a].To \o deps[i].Artifacts[a].From])])

\* What the outer loop writes for the dependencies: the upstream task's Name
\* (read through the pointer), then its artifacts.
dependencyBytes(ts, deps) ==
    Concat([i \in 1..Len(deps) |->
              ts[deps[i].Task].Name \o artifactBytes(deps[i].Artifacts)])

\* A fingerprint that also hashes the Commands of every upstream task.
hashInputWithUpstreamCommands(ts, t) ==
    ts[t].Name \o ts[t].BaseImage \o jsonMarshal(ts[t].Commands)
        \o Concat([i \in 1..Len(ts[t].Dependencies) |->
              ts[ts[t].Dependencies[i].Task].Name
                  \o jsonMarshal(ts[ts[t].Dependencies[i].Task].Commands)
                  \o Concat([a \in 1..Len(ts[t].Dependencies[i].Artifacts) |->
                        ts[t].Dependencies[i].Artifacts[a].To
                            \o ts[t].Dependencies[i].Artifacts[a].From])])

\* Everything written to the hasher, in the order of the Write calls.
hashInput(ts, t) ==
    ts[t].Name \o ts[t].BaseImage \o jsonMarshal(ts[t].Commands)
        \o dependencyBytes(ts, ts[t].Dependencies)

\* hex(sha256(bytes))[:12], idealised as collision free: two digests are
\* equal exactly when the hashed byte streams are equal.
sha256Hex12(bytes) == <<"sha256">> \o bytes

generateHash(ts, t) == sha256Hex12(hashInput(ts, t))

\* fmt.Sprintf("buildvault_%s_%s", t.Name, hash); the digest has a fixed
\* width, so the name is kept as its three parts.
generateContainerName(ts, t) == <<"buildvault", ts[t].Name, generateHash(ts, t)>>

----------------------------------------------------------------------------
(* Cycle Detector *)

Range(f) == {f[i] : i \in DOMAIN f}

RECURSIVE isCircularDependencyFree(_, _, _)
RECURSIVE dependenciesFreeFrom(_, _, _, _)

\* A loop that returns what the first dependency's check returns.
dependenciesFreeFirstOnly(ts, deps, i, parentHashes) ==
    IF i > Len(deps) THEN TRUE
    ELSE isCircularDependencyFree(ts, deps[i].Task, parentHashes)

\* The loop over t.Dependencies from position i on: false at the first
\* dependency whose check fails, true when none does.
dependenciesFreeFrom(ts, deps, i, parentHashes) ==
    IF i > Len(deps) THEN TRUE
    ELSE IF ~isCircularDependencyFree(ts, deps[i].Task, parentHashes) THEN FALSE
    ELSE dependenciesFreeFrom(ts, deps, i + 1, parentHashes)

\* parentHashes is passed by value: each call appends to its own copy.
isCircularDependencyFree(ts, t, parentHashes) ==
    IF Len(ts[t].Dependencies) = 0 THEN TRUE
    ELSE LET currentHash == generateHash(ts, t)
         IN  IF currentHash \in Range(parentHashes) THEN FALSE
             ELSE LET newParentHashes == Append(parentHashes, currentHash)
                  IN  dependenciesFreeFrom(ts, ts[t].Dependencies, 1, newParentHashes)

RECURSIVE Visits(_, _, _, _)
RECURSIVE VisitsFrom(_, _, _, _, _)

\* The fingerprints that the calls vs appended to the paths they were given,
\* in the order of the calls.
RECURSIVE Appended(_, _)
Appended(ts, vs) ==
    IF vs = <<>> THEN <<>>
    ELSE LET v == Head(vs)
             h == generateHash(ts, v.task)
         IN  (IF Len(ts[v.task].Dependencies) # 0 /\ h \notin Range(v.path)
              THEN <<h>> ELSE <<>>) \o Appended(ts, Tail(vs))

\* One path shared by all the calls: what a dependency's subtree appended
\* stays on it for the next dependency.
pathAfterDependencyShared(own, appended) == own \o appended

\* The path the loop hands to the next dependency after a dependency's call
\* returned: its own newParentHashes, a slice the callee copied before it
\* appended, so without what the callee's subtree appended.
pathAfterDependency(own, appended) == own

\* The calls of isCircularDependencyFree made for the dependencies of t from
\* position i on, up to the first that returns false.
VisitsFrom(ts, t, i, newParentHashes, ancestors) ==
    LET deps == ts[t].Dependencies
    IN  IF i > Len(deps) THEN <<>>
        ELSE LET below == Visits(ts, deps[i].Task, newParentHashes, ancestors)
             IN  IF ~isCircularDependencyFree(ts, deps[i].Task, newParentHashes)
                 THEN below
                 ELSE below \o VisitsFrom(ts, t, i + 1,
                                 pathAfterDependency(newParentHashes, Appended(ts, below)),
                                 ancestors)

\* The calls that isCircularDependencyFree(t, parentHashes) makes, itself
\* first, in order: each with its task, the path it was given and the tasks
\* of the calls it is nested in.
Visits(ts, t, parentHashes, ancestors) ==
    LET v == <<[task |-> t, path |-> parentHashes, ancestors |-> ancestors]>>
        currentHash == generateHash(ts, t)
    IN  IF Len(ts[t].Dependencies) = 0 THEN v
        ELSE IF currentHash \in Range(parentHashes) THEN v
        ELSE v \o VisitsFrom(ts, t, 1, Append(parentHashes, currentHash),
                             Append(ancestors, t))

----------------------------------------------------------------------------
(* The caller building and editing task definitions, and naming them *)

MaxEdits == 1

A == S1("a")
AA == S2("a", "a")
B == S1("b")
AB == S2("a", "b")
PathX == S2("/", "x")
PathY == S2("/", "y")
PathAX == S3("a", "/", "x")

\* One command whose text holds a quote and a comma: a","b
QuotedCmd == <<"a", "\"", ",", "\"", "b">>

HashNames == {A, AA, AB}
HashImages == {B, AB}
HashCommandTexts == {A, B, QuotedCmd}
HashCommands ==
    {NilSlice, StringSlice(<<>>), StringSlice(<<A>>), StringSlice(<<A, B>>),
     StringSlice(<<QuotedCmd>>)}
HashPaths == {PathX, PathY, PathAX}
HashArtifacts == {<<>>, <<Artifact(PathX, PathY)>>}
HashDependencies ==
    {<<>>}
    \cup {<<Dependency(2, a)>> : a \in HashArtifacts}
    \cup {<<Dependency(2, a), Dependency(3, b)>> : a, b \in HashArtifacts}

\* Task 1 is the task under study; tasks 2 and 3 are its possible upstreams.
HashHeaps ==
    {<<Task(n, img, cmds, deps),
       Task(A, B, StringSlice(<<A>>), <<>>),
       Task(AA, B, NilSlice, <<>>)>> :
        n \in {A, AB}, img \in HashImages, cmds \in HashCommands,
        deps \in HashDependencies}

NoEdit == [kind |-> "none", task |-> 0, dep |-> 0, art |-> 0, index |-> 0]

InitHash ==
    /\ tasks \in HashHeaps
    /\ prev = tasks
    /\ edit = NoEdit
    /\ nEdits = 0
    /\ names = [t \in DOMAIN tasks |-> NoResult]
    /\ namesBefore = [t \in DOMAIN tasks |-> NoResult]
    /\ cycleFree = [t \in DOMAIN tasks |-> NoResult]
    /\ seen = [t \in DOMAIN tasks |-> <<>>]
    /\ ExecIdle
    /\ OthersIdle

Computed(ns) == \A t \in DOMAIN ns : ns[t] # NoResult

\* The caller asks every task for its container name.
GenerateNames ==
    /\ ~Computed(names)
    /\ names' = [t \in DOMAIN tasks |-> <<generateContainerName(tasks, t)>>]
    /\ UNCHANGED <<tasks, prev, edit, nEdits, namesBefore, cycleVars, raceVars, extractVars, dockerVars, execVars>>

\* The frame of every edit: the heap becomes ts, the names computed so far
\* become the names of before.
Edited(ts, e) ==
    /\ Computed(names)
    /\ nEdits < MaxEdits
    /\ ts # tasks
    /\ tasks' = ts
    /\ prev' = tasks
    /\ edit' = e
    /\ nEdits' = nEdits + 1
    /\ namesBefore' = names
    /\ names' = [t \in DOMAIN tasks |-> NoResult]
    /\ UNCHANGED <<cycleVars, raceVars, extractVars, dockerVars, execVars>>

\* task.Commands[k] = c
SetCommand ==
    \E t \in DOMAIN tasks : \E k \in 1..Len(tasks[t].Commands.elems) :
    \E c \in HashCommandTexts :
        Edited([tasks EXCEPT ![t].Commands.elems[k] = c],
               [NoEdit EXCEPT !.kind = "Command", !.task = t, !.index = k])

\* task.BaseImage = img
SetBaseImage ==
    \E t \in DOMAIN tasks : \E img \in HashImages :
        Edited([tasks EXCEPT ![t].BaseImage = img],
               [NoEdit EXCEPT !.kind = "BaseImage", !.task = t])

\* task.Name = n
SetName ==
    \E t \in DOMAIN tasks : \E n \in HashNames :
        Edited([tasks EXCEPT ![t].Name = n],
               [NoEdit EXCEPT !.kind = "Name", !.task = t])

\* task.Dependencies[d].Artifacts[a].From = p
SetArtifactFrom ==
    \E t \in DOMAIN tasks : \E d \in 1..Len(tasks[t].Dependencies) :
    \E a \in 1..Len(tasks[t].Dependencies[d].Artifacts) : \E p \in HashPaths :
        Edited([tasks EXCEPT ![t].Dependencies[d].Artifacts[a].From = p],
               [NoEdit EXCEPT !.kind = "From", !.task = t, !.dep = d, !.art = a])

\* task.Dependencies[d].Artifacts[a].To = p
SetArtifactTo ==
    \E t \in DOMAIN tasks : \E d \in 1..Len(tasks[t].Dependencies) :
    \E a \in 1..Len(tasks[t].Dependencies[d].Artifacts) : \E p \in HashPaths :
        Edited([tasks EXCEPT ![t].Dependencies[d].Artifacts[a].To = p],
               [NoEdit EXCEPT !.kind = "To", !.task = t, !.dep = d, !.art = a])

\* task.Dependencies[d].Task = &u
SetDependencyTask ==
    \E t \in DOMAIN tasks : \E d \in 1..Len(tasks[t].Dependencies) :
    \E u \in DOMAIN tasks :
        Edited([tasks EXCEPT ![t].Dependencies[d].Task = u],
               [NoEdit EXCEPT !.kind = "DependencyTask", !.task = t, !.dep = d])

\* The same dependencies, with those at positions d and d+1 exchanged.
SwapDependencies ==
    \E t \in DOMAIN tasks : \E d \in 1..(Len(tasks[t].Dependencies) - 1) :
        LET deps == tasks[t].Dependencies
        IN  Edited([tasks EXCEPT ![t].Dependencies =
                        [deps EXCEPT ![d] = deps[d + 1], ![d + 1] = deps[d]]],
                   [NoEdit EXCEPT !.kind = "Swap", !.task = t, !.dep = d])

NextHash ==
    \/ GenerateNames
    \/ SetCommand
    \/ SetBaseImage
    \/ SetName
    \/ SetArtifactFrom
    \/ SetArtifactTo
    \/ SetDependencyTask
    \/ SwapDependencies

SpecHash == InitHash /\ [][NextHash]_vars

----------------------------------------------------------------------------
(* Properties of the fingerprint *)

\* The digest inside a computed container name.
HashOf(ns, t) == ns[t][1][3]

\* The fields the fingerprint is specified over: Name, BaseImage, Commands
\* and, per dependency, the upstream task's name and the artifact list.
FingerprintFields(ts, t) ==
    [Name |-> ts[t].Name, BaseImage |-> ts[t].BaseImage,
     Commands |-> ts[t].Commands,
     Dependencies |-> [d \in 1..Len(ts[t].Dependencies) |->
        <<ts[ts[t].Dependencies[d].Task].Name, ts[t].Dependencies[d].Artifacts>>]]

BothComputed == Computed(names) /\ Computed(namesBefore)

\* C1: two tasks with equal Name, BaseImage, Commands and equal sequences of
\* (upstream name, artifacts) have the same digest and the same container
\* name, whether they are two structs of one heap or one struct before and
\* after an edit that leaves those fields alone.
C1_Determinism ==
    /\ Computed(names) =>
         \A i, j \in DOMAIN tasks :
            FingerprintFields(tasks, i) = FingerprintFields(tasks, j)
                => /\ HashOf(names, i) = HashOf(names, j)
                   /\ names[i] = names[j]
    /\ BothComputed =>
         \A i, j \in DOMAIN tasks :
            FingerprintFields(prev, i) = FingerprintFields(tasks, j)
                => /\ HashOf(namesBefore, i) = HashOf(names, j)
                   /\ namesBefore[i] = names[j]

\* A dependency of task 1 was pointed at another struct with the same name,
\* and both names were computed.
C1_Witness ==
    /\ BothComputed
    /\ edit.kind = "DependencyTask"
    /\ edit.task = 1
    /\ prev[1].Dependencies # tasks[1].Dependencies
    /\ FingerprintFields(prev, 1) = FingerprintFields(tasks, 1)
    /\ namesBefore[1] = names[1]

\* C2: changing one Command, the BaseImage, or one From or To path of a
\* task, everything else left alone, changes its digest and container name.
C2_Sensitivity ==
    (BothComputed /\ edit.kind \in {"Command", "BaseImage", "From", "To"})
        => /\ HashOf(names, edit.task) # HashOf(namesBefore, edit.task)
           /\ names[edit.task] # namesBefore[edit.task]

\* A From path of task 1 was changed and the names were computed again.
C2_Witness ==
    /\ BothComputed
    /\ edit.kind = "From"
    /\ edit.task = 1
    /\ HashOf(names, 1) # HashOf(namesBefore, 1)

\* Task t has a dependency on task u.
DependsOn(ts, t, u) ==
    \E d \in 1..Len(ts[t].Dependencies) : ts[t].Dependencies[d].Task = u

\* C3: changing the Commands or the BaseImage of an upstream task U leaves
\* the digest of every other task T that depends on U unchanged.
C3_StalenessGap ==
    (BothComputed /\ edit.kind \in {"Command", "BaseImage"})
        => \A t \in DOMAIN tasks :
              (t # edit.task /\ DependsOn(tasks, t, edit.task))
                  => HashOf(names, t) = HashOf(namesBefore, t)

\* A command of upstream task 2 was changed while task 1 depends on it.
C3_Witness ==
    /\ BothComputed
    /\ edit.kind = "Command"
    /\ edit.task = 2
    /\ DependsOn(tasks, 1, 2)
    /\ prev[2].Commands # tasks[2].Commands
    /\ HashOf(names, 1) = HashOf(namesBefore, 1)

\* C4: listing the same distinct dependencies in another order changes the
\* digest. Stated as claimed; the hasher is given the names and paths with
\* nothing between them, so two orders can hash the same bytes.
C4_DependencyOrderSensitive ==
    (/\ BothComputed
     /\ edit.kind = "Swap"
     /\ LET deps == prev[edit.task].Dependencies
        IN  <<prev[deps[edit.dep].Task].Name, deps[edit.dep].Artifacts>>
              # <<prev[deps[edit.dep + 1].Task].Name, deps[edit.dep + 1].Artifacts>>)
        => HashOf(names, edit.task) # HashOf(namesBefore, edit.task)

----------------------------------------------------------------------------
(* The cycle detector applied to task graphs *)

MaxDeps == 2

AAA == S3("a", "a", "a")

CycleTaskIds == {1, 2, 3}

\* The sequences of at most n elements of S.
RECURSIVE SeqsUpTo(_, _)
SeqsUpTo(S, n) ==
    IF n = 0 THEN {<<>>}
    ELSE LET shorter == SeqsUpTo(S, n - 1)
         IN  shorter \cup {Append(q, x) : q \in shorter, x \in S}

DependenciesOn(targets, arts) == [d \in DOMAIN targets |-> Dependency(targets[d], arts)]

\* Three tasks with the names a, aa and aaa and every way of pointing at most
\* MaxDeps dependencies of each at the three (cyclic graphs included); the
\* dependencies of a task either all carry no artifact or all carry one.
CycleGraphs ==
    {<<Task(A, img, StringSlice(<<>>),
            DependenciesOn(d1, IF arts THEN <<Artifact(PathY, PathAX)>> ELSE <<>>)),
       Task(AA, B, StringSlice(<<>>),
            DependenciesOn(d2, IF arts THEN <<Artifact(PathY, PathX)>> ELSE <<>>)),
       Task(AAA, B, StringSlice(<<>>), DependenciesOn(d3, <<>>))>> :
        img \in {AB}, arts \in BOOLEAN,
        d1 \in SeqsUpTo(CycleTaskIds, MaxDeps),
        d2 \in SeqsUpTo(CycleTaskIds, MaxDeps),
        d3 \in SeqsUpTo(CycleTaskIds, MaxDeps)}

\* The diamond 1 -> {2, 3} -> 4, task 4 shared.
Diamond ==
    <<Task(A, B, StringSlice(<<>>), <<Dependency(2, <<>>), Dependency(3, <<>>)>>),
      Task(AA, B, StringSlice(<<>>), <<Dependency(4, <<>>)>>),
      Task(AAA, B, StringSlice(<<>>), <<Dependency(4, <<>>)>>),
      Task(B, B, StringSlice(<<>>), <<>>)>>

InitCycle ==
    /\ tasks \in CycleGraphs \cup {Diamond}
    /\ prev = tasks
    /\ edit = NoEdit
    /\ nEdits = 0
    /\ names = [t \in DOMAIN tasks |-> NoResult]
    /\ namesBefore = [t \in DOMAIN tasks |-> NoResult]
    /\ cycleFree = [t \in DOMAIN tasks |-> NoResult]
    /\ seen = [t \in DOMAIN tasks |-> <<>>]
    /\ ExecIdle
    /\ OthersIdle

\* The caller runs the check on every task of the graph, as root.
CheckCycles ==
    /\ ~Computed(cycleFree)
    /\ cycleFree' = [t \in DOMAIN tasks |-> <<isCircularDependencyFree(tasks, t, <<>>)>>]
    /\ seen' = [t \in DOMAIN tasks |-> Visits(tasks, t, <<>>, <<>>)]
    /\ UNCHANGED <<tasks, hashVars, dockerVars, execVars, raceVars, extractVars>>

NextCycle == CheckCycles

SpecCycle == InitCycle /\ [][NextCycle]_vars

\* u is a dependency of t.
Edge(ts, t, u) == DependsOn(ts, t, u)

\* The tasks reachable from t in one or more dependency steps.
RECURSIVE ReachableIn(_, _, _)
ReachableIn(ts, frontier, n) ==
    LET next == {u \in DOMAIN ts : \E t \in frontier : Edge(ts, t, u)}
    IN  IF n = 0 THEN {} ELSE next \cup ReachableIn(ts, next, n - 1)

Descendants(ts, t) == ReachableIn(ts, {t}, Cardinality(DOMAIN ts))

\* A cycle is reachable from t: t, or a task below it, is below itself.
CycleReachable(ts, t) ==
    \E u \in Descendants(ts, t) \cup {t} : u \in Descendants(ts, u)

UniqueNames(ts) == \A i, j \in DOMAIN ts : ts[i].Name = ts[j].Name => i = j

\* C5: whenever a cycle is reachable from t, the check of t ends and
\* returns false.
C5_CycleRejected ==
    Computed(cycleFree) =>
        \A t \in DOMAIN tasks : CycleReachable(tasks, t) => cycleFree[t] = <<FALSE>>

\* The check was run on the two tasks of the cycle 1 -> 2 -> 1 (neither has
\* a self-loop, task 3 is a leaf) and said false for both.
C5_Witness ==
    /\ Computed(cycleFree)
    /\ Edge(tasks, 1, 2) /\ Edge(tasks, 2, 1) /\ ~Edge(tasks, 1, 1) /\ ~Edge(tasks, 2, 2)
    /\ tasks[3].Dependencies = <<>>
    /\ cycleFree[1] = <<FALSE>>
    /\ cycleFree[2] = <<FALSE>>

\* C6: on an acyclic graph with unique task names the check of every root
\* returns true. Stated as claimed; two distinct tasks on one path can hash
\* the same bytes and be taken for one task.
C6_NoFalseCycle ==
    (Computed(cycleFree) /\ UniqueNames(tasks)) =>
        \A t \in DOMAIN tasks : ~CycleReachable(tasks, t) => cycleFree[t] = <<TRUE>>

----------------------------------------------------------------------------
(* Paths *)

Slash == "/"

\* The position of the last separator of p, 0 if it has none.
LastSlash(p) ==
    LET at == {i \in 1..Len(p) : p[i] = Slash}
    IN  IF at = {} THEN 0 ELSE CHOOSE i \in at : \A k \in at : k <= i

\* filepath.Dir, for paths without ".", ".." and empty elements: all but the
\* last element, "." for a bare file name, "/" for a file in the root.
Dir(p) ==
    LET n == LastSlash(p)
    IN  IF n = 0 THEN <<".">>
        ELSE IF n = 1 THEN <<Slash>>
        ELSE SubSeq(p, 1, n - 1)

\* The last element of p: the name a file at p has in an archive.
Base(p) == SubSeq(p, LastSlash(p) + 1, Len(p))

\* A path as the container resolves it: relative to the working directory,
\* which is the root.
Abs(p) ==
    IF p = <<".">> THEN <<Slash>>
    ELSE IF p[1] = Slash THEN p
    ELSE <<Slash>> \o p

\* The file named base in directory dir.
Join(dir, base) ==
    IF Abs(dir) = <<Slash>> THEN <<Slash>> \o base ELSE Abs(dir) \o <<Slash>> \o base

\* The directories above the absolute path p, the root included.
Ancestors(p) ==
    {<<Slash>>} \cup {SubSeq(p, 1, i - 1) : i \in {k \in 2..Len(p) : p[k] = Slash}}

----------------------------------------------------------------------------
(* The Docker engine: containers and what runs in them *)

\* A container as created from an image: nothing but the root directory. Its
\* files are (path, content) pairs, at most one per path; mkdirs holds the
\* exit codes of the mkdir execs that ran in it, as ContainerExecInspect
\* would report them.
NewContainer(name, image) ==
    [name |-> name, image |-> image, state |-> "created",
     files |-> {}, dirs |-> {<<Slash>>}, mkdirs |-> {}]

\* The files fs with content written at the absolute path p.
WriteFile(fs, p, content) ==
    {f \in fs : f.path # p} \cup {[path |-> p, content |-> content]}

HasFile(fs, p) == \E f \in fs : f.path = p

ReadFile(fs, p) == (CHOOSE f \in fs : f.path = p).content

ExitCodes == [x \in {"0", "1", "2"} |-> IF x = "0" THEN 0 ELSE IF x = "1" THEN 1 ELSE 2]

\* Command texts: w<path><v> is  mkdir -p dir && echo v > path,
\* +<path><v> is  echo v >> path,  x<n> is  exit n.
WriteCmd(p, v) == <<"w">> \o p \o <<v>>
AppendCmd(p, v) == <<"+">> \o p \o <<v>>
ExitCmd(n) == <<"x", n>>

\* sh -c cmd in container c: the container afterwards, and the exit code.
Shell(c, cmd) ==
    LET op == cmd[1]
        p == Abs(SubSeq(cmd, 2, Len(cmd) - 1))
        v == cmd[Len(cmd)]
    IN  IF op = "x" THEN [container |-> c, exit |-> ExitCodes[v]]
        ELSE IF op = "w"
        THEN [container |-> [c EXCEPT !.files = WriteFile(c.files, p, <<v>>),
                                      !.dirs = c.dirs \cup Ancestors(p)],
              exit |-> 0]
        ELSE IF Dir(p) \notin c.dirs
        THEN [container |-> c, exit |-> 1]
        ELSE [container |-> [c EXCEPT !.files =
                    WriteFile(c.files, p,
                        IF HasFile(c.files, p) THEN Append(ReadFile(c.files, p), v)
                        ELSE <<v>>)],
              exit |-> 0]

\* Container id exists, that is, was created and not removed.
Exists(cs, id) == id \in DOMAIN cs /\ cs[id].state # "removed"

\* A list filtered by the task's name alone, as findTaskContainer filters:
\* it also finds the containers of other fingerprints of that name.
listContainersByTaskName(cs, name) ==
    LET ids == {id \in DOMAIN cs : Exists(cs, id) /\ cs[id].name[2] = name[2]}
        RECURSIVE InOrder(_)
        InOrder(S) == IF S = {} THEN <<>>
                      ELSE LET id == CHOOSE x \in S : \A y \in S : x <= y
                           IN  <<[ID |-> id, State |-> cs[id].state]>> \o InOrder(S \ {id})
    IN  InOrder(ids)

\* A list without All: the containers of the name that are not running are
\* the only ones a reclaim would have to remove.
listContainersNotRunning(cs, name) ==
    LET ids == {id \in DOMAIN cs : /\ Exists(cs, id)
                                   /\ cs[id].name = name
                                   /\ cs[id].state # "running"}
        RECURSIVE InOrder(_)
        InOrder(S) == IF S = {} THEN <<>>
                      ELSE LET id == CHOOSE x \in S : \A y \in S : x <= y
                           IN  <<[ID |-> id, State |-> cs[id].state]>> \o InOrder(S \ {id})
    IN  InOrder(ids)

\* A list without the name filter: every container there is.
listContainersOfAnyName(cs, name) ==
    LET ids == {id \in DOMAIN cs : Exists(cs, id)}
        RECURSIVE InOrder(_)
        InOrder(S) == IF S = {} THEN <<>>
                      ELSE LET id == CHOOSE x \in S : \A y \in S : x <= y
                           IN  <<[ID |-> id, State |-> cs[id].state]>> \o InOrder(S \ {id})
    IN  InOrder(ids)

\* ContainerList with All and a name filter: the ids and states of the
\* containers of that name.
listContainersByName(cs, name) ==
    LET ids == {id \in DOMAIN cs : Exists(cs, id) /\ cs[id].name = name}
        RECURSIVE InOrder(_)
        InOrder(S) == IF S = {} THEN <<>>
                      ELSE LET id == CHOOSE x \in S : \A y \in S : x <= y
                           IN  <<[ID |-> id, State |-> cs[id].state]>> \o InOrder(S \ {id})
    IN  InOrder(ids)

----------------------------------------------------------------------------
(* Task Executor: the call stack, errors and the history *)

MaxDepth == 3
MaxFailures == 1

\* An error is the chain of its wrapped layers, outermost first; nil is <<>>.
Nil == <<>>

Err(msg, arg, code) == <<[msg |-> msg, arg |-> arg, code |-> code]>>

\* fmt.Errorf("msg ...: %w", err)
Wrap(msg, arg, err) == Err(msg, arg, 0) \o err

Top == stack[Len(stack)]

\* The frame of a call of Execute on task t, at its first provider call.
Frame(t, call) ==
    [task |-> t, call |-> call, pc |-> "list",
     name |-> generateContainerName(tasks, t),
     list |-> <<>>, i |-> 1, j |-> 1, tar |-> <<>>]

\* The history record of a call: begun and ended are the numbers of provider
\* operations issued when the call began and when it returned (0: not yet).
CallRecord(t, parent, name) ==
    [task |-> t, parent |-> parent, name |-> name, cid |-> 0,
     begun |-> Len(events), ended |-> 0,
     atCommands |-> NoResult, atStop |-> NoResult, returned |-> NoResult]

\* A provider operation of the history. For an exec, index is the command's
\* position in Commands, code its exit code (-1 if it was never started), and
\* ok says that every provider call of the turn succeeded.
\* For a copy, dep and art are the positions of the dependency and of the
\* artifact; for an image check, present is what the check reported.
Event(op, f, cid, arg, ok) ==
    [op |-> op, call |-> f.call, task |-> f.task, cid |-> cid, arg |-> arg, ok |-> ok,
     index |-> 0, code |-> 0, dep |-> 0, art |-> 0, present |-> FALSE]

Log(e) == events' = Append(events, e)

\* Whether a provider call may fail for a reason of the daemon's.
MayFail == IF failures < MaxFailures THEN {FALSE, TRUE} ELSE {FALSE}

Inject(fail) == failures' = failures + (IF fail THEN 1 ELSE 0)

\* The error err of the top frame as each caller up the stack wraps it:
\* every caller is in its loop over Dependencies, at dependency i.
RECURSIVE Unwind(_, _)
Unwind(depth, err) ==
    IF depth = 0 THEN err
    ELSE LET f == stack[depth]
             dep == tasks[f.task].Dependencies[f.i]
         IN  Unwind(depth - 1,
                    Wrap("error executing task dependency", tasks[dep.Task].Name, err))

\* The call history with err returned by the top frame and, wrapped, by
\* every caller above it.
RECURSIVE Returned(_, _, _)
Returned(cs, depth, err) ==
    IF depth = 0 THEN cs
    ELSE Returned([cs EXCEPT ![stack[depth].call].returned = <<err>>,
                             ![stack[depth].call].ended = Len(events) + 1], depth - 1,
                  IF depth = 1 THEN err
                  ELSE Wrap("error executing task dependency",
                            tasks[tasks[stack[depth - 1].task]
                                    .Dependencies[stack[depth - 1].i].Task].Name, err))

\* The top frame goes on as frame f.
Continue(f) ==
    /\ stack' = [stack EXCEPT ![Len(stack)] = f]
    /\ UNCHANGED results

\* A cleanUpRunningContainer that leaves the containers it found alone.
ReclaimPcLeavingAll(list) == "imageCheck"

\* Where cleanUpRunningContainer goes on with the containers left to reclaim.
ReclaimPc(list) ==
    IF list = <<>> THEN "imageCheck"
    ELSE IF Head(list).State = "running" THEN "stopOld"
    ELSE "removeOld"

\* A copy loop that ends with the artifacts of the dependency it is at.
ArtifactsFromSameDependency(t, i, j) ==
    IF i \in DOMAIN tasks[t].Dependencies
    THEN {<<i, a>> : a \in {x \in DOMAIN tasks[t].Dependencies[i].Artifacts : x >= j}}
    ELSE {}

\* The artifacts of task t from position (i, j) on, as (dependency, artifact)
\* index pairs in the order of the two copy loops.
ArtifactsFrom(t, i, j) ==
    LET deps == tasks[t].Dependencies
        all == UNION {{<<d, a>> : a \in DOMAIN deps[d].Artifacts} : d \in DOMAIN deps}
    IN  {x \in all : x[1] > i \/ (x[1] = i /\ x[2] >= j)}

\* The last of a non-empty set of (dependency, artifact) pairs.
LastPair(S) ==
    CHOOSE x \in S : \A y \in S : x[1] > y[1] \/ (x[1] = y[1] /\ x[2] >= y[2])

\* The first of a non-empty set of (dependency, artifact) pairs.
FirstPair(S) ==
    CHOOSE x \in S : \A y \in S : x[1] < y[1] \/ (x[1] = y[1] /\ x[2] <= y[2])

\* Frame f at the copy loops, from position (i, j) on: at the next artifact
\* to copy or, with none left, at executeCommands.
AtCopy(f, i, j) ==
    LET left == ArtifactsFrom(f.task, i, j)
    IN  IF left = {}
        THEN [f EXCEPT !.pc = IF Len(tasks[f.task].Commands.elems) = 0
                              THEN "stopOwn" ELSE "cmd",
                       !.i = 1, !.j = 1, !.tar = <<>>]
        ELSE [f EXCEPT !.pc = "copyFrom", !.i = FirstPair(left)[1],
                       !.j = FirstPair(left)[2], !.tar = <<>>]

\* A single loop: the artifacts of dependency i are copied as soon as it has
\* executed.
AfterDependencyCopyingAtOnce(f) ==
    IF tasks[f.task].Dependencies[f.i].Artifacts # <<>>
    THEN [f EXCEPT !.pc = "copyFrom", !.j = 1, !.tar = <<>>]
    ELSE IF f.i < Len(tasks[f.task].Dependencies)
    THEN [f EXCEPT !.i = f.i + 1]
    ELSE AtCopy(f, Len(tasks[f.task].Dependencies) + 1, 1)

\* A first loop that is left after the first dependency.
AfterDependencyOnlyFirst(f) == AtCopy(f, 1, 1)

\* The first loop of executeDependenciesAndCopyArtifacts after the Execute
\* of dependency f.i returned nil: on with the next dependency or, after the
\* last, with the copy loops from their start.
AfterDependency(f) ==
    IF f.i < Len(tasks[f.task].Dependencies)
    THEN [f EXCEPT !.i = f.i + 1]
    ELSE AtCopy(f, 1, 1)

\* A caller that goes on with its loop when a dependency's Execute returned
\* an error.
ReturnErrIgnoredByCaller(err) ==
    /\ calls' = [calls EXCEPT ![Top.call].returned = <<err>>,
                              ![Top.call].ended = Len(events) + 1]
    /\ IF Len(stack) = 1
       THEN /\ stack' = <<>>
            /\ results' = Append(results, err)
       ELSE /\ stack' = Append(SubSeq(stack, 1, Len(stack) - 2),
                               AfterDependency(stack[Len(stack) - 1]))
            /\ UNCHANGED results

\* The top frame returns err: every caller returns it wrapped, and the root
\* call hands it to the caller of Execute.
ReturnErr(err) ==
    /\ stack' = <<>>
    /\ results' = Append(results, Unwind(Len(stack) - 1, err))
    /\ calls' = Returned(calls, Len(stack), err)

\* The history when frame f goes on as frame g: on entering executeCommands
\* the files of the task's container, as they are in cs, are recorded.
Entering(f, g, ts, cs) ==
    IF f.pc \notin {"cmd", "stopOwn"} /\ g.pc \in {"cmd", "stopOwn"}
    THEN [calls EXCEPT ![f.call].atCommands =
            <<IF ts[f.task].containerID \in DOMAIN cs
              THEN cs[ts[f.task].containerID].files ELSE {}>>]
    ELSE calls

----------------------------------------------------------------------------
(* Task Executor: the steps of Execute, one per provider call *)

\* The caller calls Execute on its next root task.
CallExecute ==
    /\ stack = <<>>
    /\ roots # <<>>
    /\ LET t == Head(roots)
           f == Frame(t, nCalls + 1)
       IN  /\ stack' = <<f>>
           /\ calls' = Append(calls, CallRecord(t, 0, f.name))
    /\ roots' = Tail(roots)
    /\ nCalls' = nCalls + 1
    /\ UNCHANGED <<tasks, hashVars, cycleVars, raceVars, extractVars, dockerVars, results, failures, events>>

\* cleanUpRunningContainer: ContainerList of the containers of that name.
CleanupList ==
    /\ stack # <<>>
    /\ Top.pc = "list"
    /\ \E fail \in MayFail :
        /\ Inject(fail)
        /\ Log(Event("list", Top, 0, Top.name, ~fail))
        /\ IF fail
           THEN ReturnErr(Err("error checking for existing container", Top.name, 0))
           ELSE LET found == listContainersByName(containers, Top.name)
                IN  /\ Continue([Top EXCEPT !.list = found, !.pc = ReclaimPc(found)])
                    /\ UNCHANGED calls
    /\ UNCHANGED <<tasks, hashVars, cycleVars, raceVars, extractVars, dockerVars, roots, nCalls>>

\* cleanUpRunningContainer: ContainerStop of a container listed as running.
CleanupStop ==
    /\ stack # <<>>
    /\ Top.pc = "stopOld"
    /\ LET id == Head(Top.list).ID
       IN  \E fail \in MayFail :
            LET failed == fail \/ ~Exists(containers, id)
            IN  /\ Inject(fail)
                /\ Log(Event("stop", Top, id, Top.name, ~failed))
                /\ IF failed
                   THEN /\ ReturnErr(Err("error stopping existing container", Top.name, 0))
                        /\ UNCHANGED <<containers, pending>>
                   ELSE /\ containers' = [containers EXCEPT ![id].state = "exited"]
                        /\ pending' = {m \in pending : m.cid # id}
                        /\ Continue([Top EXCEPT !.pc = "removeOld"])
                        /\ UNCHANGED calls
    /\ UNCHANGED <<tasks, hashVars, cycleVars, raceVars, extractVars, images, roots, nCalls>>

\* cleanUpRunningContainer: ContainerRemove, without force; its error is
\* built and dropped, and the loop goes on.
CleanupRemove ==
    /\ stack # <<>>
    /\ Top.pc = "removeOld"
    /\ LET id == Head(Top.list).ID
           rest == Tail(Top.list)
       IN  \E fail \in MayFail :
            LET failed == fail \/ ~Exists(containers, id)
                            \/ containers[id].state = "running"
            IN  /\ Inject(fail)
                /\ Log(Event("remove", Top, id, Top.name, ~failed))
                /\ containers' = IF failed THEN containers
                                 ELSE [containers EXCEPT ![id].state = "removed"]
                /\ Continue([Top EXCEPT !.list = rest, !.pc = ReclaimPc(rest)])
    /\ UNCHANGED <<tasks, hashVars, cycleVars, raceVars, extractVars, images, pending, roots, nCalls, calls>>

\* imageExistsLocally: whether a local image carries baseImage as a tag.
imageExistsLocally(imgs, baseImage) == baseImage \in imgs

\* A pullImage that pulls whatever the check reported.
AfterImageCheckAlwaysPulling(exists) == "pull"

\* pullImage after the check: return nil if the image exists, pull if not.
AfterImageCheck(exists) == IF exists THEN "create" ELSE "pull"

\* pullImage: imageExistsLocally, an ImageList.
ImageCheck ==
    /\ stack # <<>>
    /\ Top.pc = "imageCheck"
    /\ LET image == tasks[Top.task].BaseImage
           exists == imageExistsLocally(images, image)
       IN  \E fail \in MayFail :
            /\ Inject(fail)
            /\ Log([Event("imageList", Top, 0, image, ~fail) EXCEPT
                        !.present = ~fail /\ exists])
            /\ IF fail
               THEN ReturnErr(Wrap("failed to check for image", image,
                                   Err("unable to get images", image, 0)))
               ELSE /\ Continue([Top EXCEPT !.pc = AfterImageCheck(exists)])
                    /\ UNCHANGED calls
    /\ UNCHANGED <<tasks, hashVars, cycleVars, raceVars, extractVars, dockerVars, roots, nCalls>>

\* pullImage: ImagePull and the streaming of its progress.
ImagePull ==
    /\ stack # <<>>
    /\ Top.pc = "pull"
    /\ LET image == tasks[Top.task].BaseImage
       IN  \E fail \in MayFail :
            /\ Inject(fail)
            /\ Log(Event("pull", Top, 0, image, ~fail))
            /\ IF fail
               THEN /\ ReturnErr(Err("failed to pull image", image, 0))
                    /\ UNCHANGED images
               ELSE /\ images' = images \cup {image}
                    /\ Continue([Top EXCEPT !.pc = "create"])
                    /\ UNCHANGED calls
    /\ UNCHANGED <<tasks, hashVars, cycleVars, raceVars, extractVars, containers, pending, roots, nCalls>>

\* A name held only by the running containers.
NamedAmongRunning(cs, name) ==
    {id \in DOMAIN cs : cs[id].state = "running" /\ cs[id].name = name}

\* The containers of cs that bear the name.
Named(cs, name) == {id \in DOMAIN cs : Exists(cs, id) /\ cs[id].name = name}

\* A create that answers with the container that already has the name, if
\* there is one.
createOrReuseContainer(cs, name, image) ==
    IF Named(cs, name) # {}
    THEN [ok |-> TRUE, ID |-> CHOOSE id \in Named(cs, name) : TRUE, containers |-> cs]
    ELSE [ok |-> TRUE, ID |-> Len(cs) + 1,
          containers |-> Append(cs, NewContainer(name, image))]

\* createLongLivedContainer: ContainerCreate of a container of that name from
\* the image. Docker refuses a name that a container already has.
createLongLivedContainer(cs, name, image) ==
    IF Named(cs, name) # {}
    THEN [ok |-> FALSE, ID |-> 0, containers |-> cs]
    ELSE [ok |-> TRUE, ID |-> Len(cs) + 1,
          containers |-> Append(cs, NewContainer(name, image))]

\* An assignment made before the error of the create is looked at: a failed
\* create has an empty response.
recordedIDBeforeCheck(old, resp, failed) == IF failed THEN 0 ELSE resp.ID

\* The task's containerID after createLongLivedContainer returned: the
\* assignment t.containerID = resp.ID comes after the return on error.
recordedID(old, resp, failed) == IF failed THEN old ELSE resp.ID

\* An Execute that also replaces an empty Commands by nil.
taskAfterCreateNormalising(task, resp, failed) ==
    [task EXCEPT !.containerID = recordedID(task.containerID, resp, failed),
                 !.Commands = IF @.elems = <<>> THEN NilSlice ELSE @]

\* The Task struct after createLongLivedContainer returned: containerID is
\* the one field Execute assigns to.
taskAfterCreate(task, resp, failed) ==
    [task EXCEPT !.containerID = recordedID(task.containerID, resp, failed)]

\* createLongLivedContainer, and t.containerID = resp.ID.
Create ==
    /\ stack # <<>>
    /\ Top.pc = "create"
    /\ LET resp == createLongLivedContainer(containers, Top.name, tasks[Top.task].BaseImage)
       IN  \E fail \in MayFail :
            LET failed == fail \/ ~resp.ok
            IN  /\ Inject(fail)
                /\ Log(Event("create", Top, IF failed THEN 0 ELSE resp.ID, Top.name, ~failed))
                /\ tasks' = [tasks EXCEPT ![Top.task] = taskAfterCreate(@, resp, failed)]
                /\ IF failed
                   THEN /\ ReturnErr(Err("error creating container", Top.name, 0))
                        /\ UNCHANGED containers
                   ELSE /\ containers' = resp.containers
                        /\ Continue([Top EXCEPT !.pc = "start"])
                        /\ calls' = [calls EXCEPT ![Top.call].cid = resp.ID]
    /\ UNCHANGED <<hashVars, cycleVars, raceVars, extractVars, images, pending, roots, nCalls>>

\* An entry that leaves the dependencies out when a cycle was found.
AfterCycleCheckSkippingOnCycle(f, free) ==
    IF free THEN [f EXCEPT !.pc = "dep", !.i = 1]
    ELSE AtCopy(f, Len(tasks[f.task].Dependencies) + 1, 1)

\* An entry that waits for goroutines which were never started.
AfterCycleCheckAwaiting(f, free) == [f EXCEPT !.pc = "await"]

\* The entry of executeDependenciesAndCopyArtifacts of a task with
\* dependencies, after the cycle check reported free: a cycle is printed
\* and the first loop begins with the first dependency either way.
AfterCycleCheck(f, free) == [f EXCEPT !.pc = "dep", !.i = 1]

\* startContainer, and the entry of executeDependenciesAndCopyArtifacts: with
\* dependencies, the cycle check is made and its finding only printed.
Start ==
    /\ stack # <<>>
    /\ Top.pc = "start"
    /\ LET t == Top.task
           id == tasks[t].containerID
       IN  \E fail \in MayFail :
            LET failed == fail \/ ~Exists(containers, id)
                cs == [containers EXCEPT ![id].state = "running"]
                free == isCircularDependencyFree(tasks, t, <<>>)
                f == IF tasks[t].Dependencies = <<>> THEN AtCopy(Top, 1, 1)
                     ELSE AfterCycleCheck(Top, free)
            IN  /\ Inject(fail)
                /\ IF failed
                   THEN /\ Log(Event("start", Top, id, Top.name, FALSE))
                        /\ ReturnErr(Err("error starting container", Top.name, 0))
                        /\ UNCHANGED containers
                   ELSE /\ containers' = cs
                        /\ events' = events \o <<Event("start", Top, id, Top.name, TRUE)>>
                              \o (IF tasks[t].Dependencies = <<>> THEN <<>>
                                  ELSE <<Event("cycleCheck", Top, id, Top.name, free)>>)
                        /\ Continue(f)
                        /\ calls' = Entering(Top, f, tasks, cs)
    /\ UNCHANGED <<tasks, hashVars, cycleVars, raceVars, extractVars, images, pending, roots, nCalls>>

\* The first loop of executeDependenciesAndCopyArtifacts: Execute of
\* dependency i, a nested call.
DependencyExecute ==
    /\ stack # <<>>
    /\ Top.pc = "dep"
    /\ Len(stack) < MaxDepth
    /\ LET t == tasks[Top.task].Dependencies[Top.i].Task
           f == Frame(t, nCalls + 1)
       IN  /\ stack' = Append(stack, f)
           /\ calls' = Append(calls, CallRecord(t, Top.call, f.name))
    /\ nCalls' = nCalls + 1
    /\ UNCHANGED <<tasks, hashVars, cycleVars, raceVars, extractVars, dockerVars, roots, results, failures, events>>

\* A call that names the dependency's container as source and as target.
copyArgumentsSourceTwice(ts, t, i, j) ==
    [source |-> ts[ts[t].Dependencies[i].Task].containerID,
     target |-> ts[ts[t].Dependencies[i].Task].containerID,
     sourcePath |-> ts[t].Dependencies[i].Artifacts[j].From,
     targetPath |-> ts[t].Dependencies[i].Artifacts[j].To]

\* The arguments of the call of copyBetweenContainers for artifact j of
\* dependency i of task t: the container ids are read from the two tasks
\* at the time of the call.
copyArguments(ts, t, i, j) ==
    [source |-> ts[ts[t].Dependencies[i].Task].containerID,
     target |-> ts[t].containerID,
     sourcePath |-> ts[t].Dependencies[i].Artifacts[j].From,
     targetPath |-> ts[t].Dependencies[i].Artifacts[j].To]

\* copyBetweenContainers: CopyFromContainer of artifact (i, j) from the
\* container the dependency's task now records; the archive holds the file
\* under its base name.
CopyFrom ==
    /\ stack # <<>>
    /\ Top.pc = "copyFrom"
    /\ LET args == copyArguments(tasks, Top.task, Top.i, Top.j)
           source == args.source
       IN  \E fail \in MayFail :
            LET failed == fail \/ ~Exists(containers, source)
                            \/ ~HasFile(containers[source].files, Abs(args.sourcePath))
            IN  /\ Inject(fail)
                /\ Log([Event("copyFrom", Top, source, args.sourcePath, ~failed) EXCEPT
                            !.dep = Top.i, !.art = Top.j])
                /\ IF failed
                   THEN ReturnErr(Wrap("error copying dependency file", args.sourcePath,
                            Err("error copying from source container", <<>>, 0)))
                   ELSE /\ Continue([Top EXCEPT
                                !.tar = <<[name |-> Base(args.sourcePath),
                                           content |-> ReadFile(containers[source].files,
                                                                Abs(args.sourcePath))]>>,
                                !.pc = IF Dir(args.targetPath) # <<".">>
                                       THEN "mkdir" ELSE "copyTo"])
                        /\ UNCHANGED calls
    /\ UNCHANGED <<tasks, hashVars, cycleVars, raceVars, extractVars, dockerVars, roots, nCalls>>

\* copyBetweenContainers: ContainerExecCreate and ContainerExecStart of
\* mkdir -p targetDir in the task's container. ExecStart returns once the
\* exec is started; nothing waits for it or reads its exit code.
CopyMkdir ==
    /\ stack # <<>>
    /\ Top.pc = "mkdir"
    /\ LET args == copyArguments(tasks, Top.task, Top.i, Top.j)
           target == args.target
           targetDir == Dir(args.targetPath)
       IN  \E fail \in MayFail :
            LET failed == fail \/ ~Exists(containers, target)
                            \/ containers[target].state # "running"
            IN  /\ Inject(fail)
                /\ Log([Event("mkdir", Top, target, targetDir, ~failed) EXCEPT
                            !.dep = Top.i, !.art = Top.j])
                /\ IF failed
                   THEN /\ ReturnErr(Wrap("error copying dependency file", args.sourcePath,
                               Err("error creating directory in target container",
                                   <<>>, 0)))
                        /\ UNCHANGED pending
                   ELSE /\ pending' = pending \cup {[cid |-> target, dir |-> Abs(targetDir)]}
                        /\ Continue([Top EXCEPT !.pc = "copyTo"])
                        /\ UNCHANGED calls
    /\ UNCHANGED <<tasks, hashVars, cycleVars, raceVars, extractVars, containers, images, roots, nCalls>>

\* Docker runs a started mkdir -p: the directory and those above it come to
\* exist and the exec exits 0, unless a file is in the way: then it exits 1.
\* In a container that is no longer running the exec does not run.
MkdirRuns ==
    /\ \E m \in pending :
        /\ pending' = pending \ {m}
        /\ LET c == containers[m.cid]
               wanted == (Ancestors(m.dir) \cup {m.dir})
           IN  containers' =
                 IF c.state # "running" THEN containers
                 ELSE IF \A d \in wanted : ~HasFile(c.files, d)
                 THEN [containers EXCEPT
                          ![m.cid].dirs = c.dirs \cup wanted,
                          ![m.cid].mkdirs = @ \cup {[dir |-> m.dir, exit |-> 0]}]
                 ELSE [containers EXCEPT
                          ![m.cid].mkdirs = @ \cup {[dir |-> m.dir, exit |-> 1]}]
    /\ UNCHANGED <<tasks, hashVars, cycleVars, raceVars, extractVars, images, execVars>>

\* A CopyToContainer that unpacks wherever the container exists.
copyToFailsOnlyWithoutContainer(cs, target, targetDir) == ~Exists(cs, target)

\* Whether CopyToContainer into targetDir of container target returns an
\* error of Docker's: the container or the directory does not exist.
copyToFails(cs, target, targetDir) ==
    \/ ~Exists(cs, target)
    \/ Abs(targetDir) \notin cs[target].dirs

\* copyBetweenContainers: CopyToContainer unpacks the archive into targetDir,
\* which must exist: the file arrives under the name it has in the archive.
CopyTo ==
    /\ stack # <<>>
    /\ Top.pc = "copyTo"
    /\ LET args == copyArguments(tasks, Top.task, Top.i, Top.j)
           target == args.target
           targetDir == Dir(args.targetPath)
           entry == Top.tar[1]
       IN  \E fail \in MayFail :
            LET failed == fail \/ copyToFails(containers, target, targetDir)
                cs == [containers EXCEPT ![target].files =
                          WriteFile(@, Join(targetDir, entry.name), entry.content)]
                f == AtCopy(Top, Top.i, Top.j + 1)
            IN  /\ Inject(fail)
                /\ Log([Event("copyTo", Top, target, args.targetPath, ~failed) EXCEPT
                            !.dep = Top.i, !.art = Top.j])
                /\ IF failed
                   THEN /\ ReturnErr(Wrap("error copying dependency file", args.sourcePath,
                               Err("error copying to target container", <<>>, 0)))
                        /\ UNCHANGED containers
                   ELSE /\ containers' = cs
                        /\ Continue(f)
                        /\ calls' = Entering(Top, f, tasks, cs)
    /\ UNCHANGED <<tasks, hashVars, cycleVars, raceVars, extractVars, images, pending, roots, nCalls>>

\* What can become of the provider calls that run one command.
ExecOutcomes ==
    {"ran"} \cup (IF failures < MaxFailures THEN {"notStarted", "lost"} ELSE {})

\* A loop that goes on to the next command whatever the exit code was.
AfterCommandIgnoringExit(f, cmd, code) ==
    [err |-> Nil,
     frame |-> IF f.i < Len(tasks[f.task].Commands.elems)
               THEN [f EXCEPT !.i = f.i + 1] ELSE [f EXCEPT !.pc = "stopOwn"]]

\* A loop that, at a non-zero exit code, leaves for the stop of the container.
AfterCommandStoppingOnFailure(f, cmd, code) ==
    [err |-> Nil,
     frame |-> IF code = 0 /\ f.i < Len(tasks[f.task].Commands.elems)
               THEN [f EXCEPT !.i = f.i + 1] ELSE [f EXCEPT !.pc = "stopOwn"]]

\* A loop that takes only the exit code 1 for a failure.
AfterCommandFailingOnOne(f, cmd, code) ==
    IF code = 1
    THEN [err |-> Err("command failed with exit code", cmd, code), frame |-> f]
    ELSE [err |-> Nil,
          frame |-> IF f.i < Len(tasks[f.task].Commands.elems)
                    THEN [f EXCEPT !.i = f.i + 1] ELSE [f EXCEPT !.pc = "stopOwn"]]

\* executeCommands after command f.i ended with exit code code: the error to
\* return, or the frame to go on with.
AfterCommand(f, cmd, code) ==
    IF code # 0
    THEN [err |-> Err("command failed with exit code", cmd, code), frame |-> f]
    ELSE [err |-> Nil,
          frame |-> IF f.i < Len(tasks[f.task].Commands.elems)
                    THEN [f EXCEPT !.i = f.i + 1] ELSE [f EXCEPT !.pc = "stopOwn"]]

\* executeCommands, one turn of its loop: ContainerExecCreate of sh -c cmd in
\* the task's container, ContainerExecAttach, StdCopy to the end of the
\* output, ContainerExecInspect for the exit code.
Command ==
    /\ stack # <<>>
    /\ Top.pc = "cmd"
    /\ LET cmd == tasks[Top.task].Commands.elems[Top.i]
           id == tasks[Top.task].containerID
       IN  \E outcome \in ExecOutcomes :
            LET notStarted == outcome = "notStarted" \/ ~Exists(containers, id)
                                \/ containers[id].state # "running"
                run == Shell(containers[id], cmd)
                after == AfterCommand(Top, cmd, run.exit)
            IN  /\ Inject(outcome # "ran")
                /\ IF notStarted
                   THEN /\ Log([Event("exec", Top, id, cmd, FALSE) EXCEPT
                                    !.index = Top.i, !.code = -1])
                        /\ ReturnErr(Err("error creating exec for command", cmd, 0))
                        /\ UNCHANGED containers
                   ELSE /\ containers' = [containers EXCEPT ![id] = run.container]
                        /\ Log([Event("exec", Top, id, cmd, outcome = "ran") EXCEPT
                                    !.index = Top.i, !.code = run.exit])
                        /\ IF outcome = "lost"
                           THEN ReturnErr(Err("error inspecting exec for command", cmd, 0))
                           ELSE IF after.err # Nil
                           THEN ReturnErr(after.err)
                           ELSE /\ Continue(after.frame)
                                /\ UNCHANGED calls
    /\ UNCHANGED <<tasks, hashVars, cycleVars, raceVars, extractVars, images, pending, roots, nCalls>>

\* stopContainer with SIGKILL, and the return of nil: to the caller of the
\* root call, or into the caller's loop over Dependencies, which goes on
\* with the next dependency or, after the last, with the copy loops.
StopOwn ==
    /\ stack # <<>>
    /\ Top.pc = "stopOwn"
    /\ LET id == tasks[Top.task].containerID
       IN  \E fail \in MayFail :
            LET failed == fail \/ ~Exists(containers, id)
                cs == [containers EXCEPT ![id].state = "exited"]
                done == [calls EXCEPT ![Top.call].returned = <<Nil>>,
                                      ![Top.call].ended = Len(events) + 1,
                                      ![Top.call].atStop = <<cs[id].files>>]
            IN  /\ Inject(fail)
                /\ Log(Event("stopOwn", Top, id, Top.name, ~failed))
                /\ IF failed
                   THEN /\ ReturnErr(Err("error stopping container", Top.name, 0))
                        /\ UNCHANGED <<containers, pending>>
                   ELSE /\ containers' = cs
                        /\ pending' = {m \in pending : m.cid # id}
                        /\ IF Len(stack) = 1
                           THEN /\ stack' = <<>>
                                /\ results' = Append(results, Nil)
                                /\ calls' = done
                           ELSE LET caller == stack[Len(stack) - 1]
                                    f == AfterDependency(caller)
                                IN  /\ stack' = Append(SubSeq(stack, 1, Len(stack) - 2), f)
                                    /\ UNCHANGED results
                                    /\ calls' = [Entering(caller, f, tasks, cs) EXCEPT
                                                    ![Top.call].returned = <<Nil>>,
                                                    ![Top.call].ended = Len(events) + 1,
                                                    ![Top.call].atStop = <<cs[id].files>>]
    /\ UNCHANGED <<tasks, hashVars, cycleVars, raceVars, extractVars, images, roots, nCalls>>

NextExec ==
    \/ CallExecute
    \/ CleanupList
    \/ CleanupStop
    \/ CleanupRemove
    \/ ImageCheck
    \/ ImagePull
    \/ Create
    \/ Start
    \/ DependencyExecute
    \/ CopyFrom
    \/ CopyMkdir
    \/ MkdirRuns
    \/ CopyTo
    \/ Command
    \/ StopOwn

----------------------------------------------------------------------------
(* The graphs the caller executes *)

MaxCommands == 3

PathOX == <<"/", "o", "/", "x">>
PathOY == <<"/", "o", "/", "y">>
PathCX == <<"/", "c", "/", "x">>
PathCY == <<"/", "c", "/", "y">>
RelX == <<"x">>
PathXX == <<"/", "x", "/", "x">>

C == <<"c">>
D1 == <<"d", "1">>
D2 == <<"d", "2">>

ExecCommandTexts ==
    {WriteCmd(PathOX, "1"), AppendCmd(PathOX, "2"), ExitCmd("1"), ExitCmd("2")}

\* One task without dependencies and every list of at most MaxCommands
\* commands, executed once or twice.
SingleTask ==
    {[tasks |-> <<Task(A, B, StringSlice(cmds), <<>>)>>, roots |-> r] :
        cmds \in SeqsUpTo(ExecCommandTexts, MaxCommands), r \in {<<1>>, <<1, 1>>}}

\* A consumer (task 1) of one file of a producer (task 2), as in
\* TestTaskDependencies and TestFileContentDependency, for every pair of
\* From and To; the consumer may append to the file where it expects it.
ProducerConsumer ==
    {[tasks |-> <<Task(A, B, StringSlice(cmds),
                       <<Dependency(2, <<Artifact(from, to)>>)>>),
                  Task(AA, B, StringSlice(<<WriteCmd(PathOX, "1")>>), <<>>)>>,
      roots |-> r] :
        from \in {PathOX, PathOY},
        to \in {PathOX, PathOY, PathCX, PathX, RelX},
        cmds \in {<<>>, <<AppendCmd(PathOX, "2")>>, <<AppendCmd(PathCX, "2")>>},
        r \in {<<1>>, <<2, 1>>}}

\* Two sources and a task that merges them, declared in both orders (tasks 1
\* and 2), as in TestMultipleDependencies.
Merge ==
    {[tasks |-> <<Task(C, B, StringSlice(<<AppendCmd(PathCX, "3")>>),
                       <<Dependency(3, <<Artifact(f1, t1)>>),
                         Dependency(4, <<Artifact(f2, t2)>>)>>),
                  Task(C, B, StringSlice(<<AppendCmd(PathCX, "3")>>),
                       <<Dependency(4, <<Artifact(f2, t2)>>),
                         Dependency(3, <<Artifact(f1, t1)>>)>>),
                  Task(D1, B, StringSlice(<<WriteCmd(PathOX, "1"), WriteCmd(PathOY, "1")>>), <<>>),
                  Task(D2, B, StringSlice(<<WriteCmd(PathOX, "2"), WriteCmd(PathOY, "2")>>), <<>>)>>,
      roots |-> <<1, 2>>] :
        f1 \in {PathOX}, f2 \in {PathOX, PathOY},
        t1 \in {PathCX, PathX}, t2 \in {PathCX, PathCY, PathX}}

\* main's three tasks: task 1 depends on task 2 and on task 3, and task 2 on
\* task 3, which is so executed twice.
SharedTask ==
    {[tasks |-> <<Task(C, B, StringSlice(<<AppendCmd(PathOX, "2")>>),
                       <<Dependency(2, <<Artifact(PathCX, PathCX)>>),
                         Dependency(3, <<Artifact(PathOX, PathOX)>>)>>),
                  Task(AA, B, StringSlice(<<WriteCmd(PathCX, "2")>>),
                       <<Dependency(3, <<Artifact(PathOX, PathOX)>>)>>),
                  Task(A, B, StringSlice(<<WriteCmd(PathOX, "1")>>), <<>>)>>,
      roots |-> <<1>>]}

\* Graphs with a cycle: 1 -> 2 -> 1, and a task that depends on itself.
Cyclic ==
    {[tasks |-> <<Task(A, B, StringSlice(<<WriteCmd(PathOX, "1")>>),
                       <<Dependency(2, <<Artifact(PathOX, PathOX)>>)>>),
                  Task(AA, B, StringSlice(<<WriteCmd(PathOX, "2")>>),
                       <<Dependency(1, <<Artifact(PathOX, PathOX)>>)>>)>>,
      roots |-> <<1>>],
     [tasks |-> <<Task(A, B, StringSlice(<<WriteCmd(PathOX, "1")>>),
                       <<Dependency(1, <<>>)>>)>>,
      roots |-> <<1>>]}

\* A task with two dependencies of one Name and different Commands: it takes
\* nothing from the first and two artifacts from the second.
Namesakes ==
    {[tasks |-> <<Task(C, B, StringSlice(<<AppendCmd(PathOX, "3")>>),
                       <<Dependency(2, <<>>),
                         Dependency(3, <<Artifact(PathOY, PathOY),
                                         Artifact(PathOX, PathOX)>>)>>),
                  Task(D1, B, StringSlice(<<WriteCmd(PathOX, "1")>>), <<>>),
                  Task(D1, B, StringSlice(<<WriteCmd(PathOX, "2"), WriteCmd(PathOY, "2")>>),
                       <<>>)>>,
      roots |-> <<1>>]}

\* A consumer of one file twice: the first copy lands at /x, which is then
\* in the way of the directory /x the second copy asks for.
Obstructed ==
    {[tasks |-> <<Task(C, B, StringSlice(<<>>),
                       <<Dependency(2, <<Artifact(PathOX, PathX),
                                         Artifact(PathOX, PathXX)>>)>>),
                  Task(D1, B, StringSlice(<<WriteCmd(PathOX, "1")>>), <<>>)>>,
      roots |-> <<1>>]}

\* A consumer of a producer whose last command fails after the file was
\* written.
FailingProducer ==
    {[tasks |-> <<Task(A, B, StringSlice(<<AppendCmd(PathOX, "2")>>),
                       <<Dependency(2, <<Artifact(PathOX, PathOX)>>)>>),
                  Task(AA, B, StringSlice(<<WriteCmd(PathOX, "1"), ExitCmd("2")>>), <<>>)>>,
      roots |-> <<1>>]}

Scenarios ==
    SingleTask \cup ProducerConsumer \cup Merge \cup SharedTask \cup Cyclic \cup Namesakes
        \cup Obstructed \cup FailingProducer

InitExec ==
    /\ \E sc \in Scenarios :
        /\ tasks = sc.tasks
        /\ roots = sc.roots
    /\ prev = tasks
    /\ edit = NoEdit
    /\ nEdits = 0
    /\ names = [t \in DOMAIN tasks |-> NoResult]
    /\ namesBefore = [t \in DOMAIN tasks |-> NoResult]
    /\ cycleFree = [t \in DOMAIN tasks |-> NoResult]
    /\ seen = [t \in DOMAIN tasks |-> <<>>]
    /\ containers = <<>>
    /\ images \in {{}, {B}}
    /\ pending = {}
    /\ stack = <<>>
    /\ results = <<>>
    /\ nCalls = 0
    /\ failures = 0
    /\ events = <<>>
    /\ calls = <<>>
    /\ OthersIdle

SpecExec == InitExec /\ [][NextExec]_vars

----------------------------------------------------------------------------
(* Properties of the executor *)

\* The turns of executeCommands' loop that call n took before event k.
ExecsBefore(n, k) ==
    {h \in 1..(k - 1) : events[h].op = "exec" /\ events[h].call = n}

\* C7: every call of Execute runs the task's Commands in the declared order,
\* a command starting only after the one before it completed with exit code
\* 0; after a command that exits non-zero the call starts no other command,
\* and the error it returns carries that command's text and its exit code.
C7_CommandOrderFailFast ==
    \A k \in DOMAIN events :
        events[k].op = "exec" =>
            LET e == events[k]
                cmds == tasks[e.task].Commands.elems
                earlier == ExecsBefore(e.call, k)
            IN  /\ e.index = Cardinality(earlier) + 1
                /\ e.index \in DOMAIN cmds
                /\ e.arg = cmds[e.index]
                /\ \A h \in earlier :
                    events[h].index < e.index /\ events[h].ok /\ events[h].code = 0
                /\ (e.ok /\ e.code # 0) =>
                    calls[e.call].returned =
                        <<Err("command failed with exit code", cmds[e.index], e.code)>>

\* C7's case: the second of three commands exited non-zero, after the first
\* had exited 0, and the call has returned.
C7_Witness ==
    \E k \in DOMAIN events :
        /\ events[k].op = "exec" /\ events[k].ok
        /\ events[k].index = 2 /\ events[k].code # 0
        /\ Len(tasks[events[k].task].Commands.elems) = 3
        /\ \E h \in ExecsBefore(events[k].call, k) : events[h].code = 0
        /\ calls[events[k].call].returned # NoResult

\* The CopyFromContainer that the CopyToContainer of event k put into the
\* target: the one before it, with at most the mkdir between them.
CopyFromOf(k) == IF events[k - 1].op = "copyFrom" THEN events[k - 1] ELSE events[k - 2]

\* copyBetweenContainers has just returned nil.
JustCopied ==
    /\ events # <<>>
    /\ events[Len(events)].op = "copyTo"
    /\ events[Len(events)].ok

\* C8: when copyBetweenContainers(source, target, From, To) has returned
\* without error, the target holds at To the content the source holds at
\* From.
C8_ArtifactLandsAtTo ==
    JustCopied =>
        LET to == events[Len(events)]
            from == CopyFromOf(Len(events))
            source == containers[from.cid].files
            target == containers[to.cid].files
        IN  /\ HasFile(target, Abs(to.arg))
            /\ ReadFile(target, Abs(to.arg)) = ReadFile(source, Abs(from.arg))

\* Call m is a dependency's Execute called by call n, and both returned nil.
Upstream(m, n) ==
    /\ calls[m].parent = n
    /\ calls[m].returned = <<Nil>>
    /\ calls[n].returned = <<Nil>>

\* C9: the container of a call of Execute that returned nil holds, for as
\* long as it exists, the files it held when the call returned: no copy
\* out of it and no command of a downstream task changes them.
C9_UpstreamIsolation ==
    \A m \in DOMAIN calls :
        (calls[m].returned = <<Nil>> /\ Exists(containers, calls[m].cid)) =>
            containers[calls[m].cid].files = calls[m].atStop[1]

\* C9's case: a downstream call that returned nil has changed, with its
\* commands, a file it copied from its upstream, whose container still
\* exists and holds the file.
C9_Witness ==
    \E m, n \in DOMAIN calls :
        /\ Upstream(m, n)
        /\ Exists(containers, calls[m].cid)
        /\ Exists(containers, calls[n].cid)
        /\ \E k \in DOMAIN events :
            events[k].op = "copyTo" /\ events[k].ok /\ events[k].call = n
        /\ \E f \in containers[calls[m].cid].files :
            \E g \in containers[calls[n].cid].files :
                f.path = g.path /\ f.content # g.content

\* Task b is task a with its two dependencies declared in the other order.
Reversed(a, b) ==
    /\ a.Name = b.Name
    /\ a.BaseImage = b.BaseImage
    /\ a.Commands = b.Commands
    /\ Len(a.Dependencies) = 2
    /\ b.Dependencies = <<a.Dependencies[2], a.Dependencies[1]>>

\* The destination paths of the artifacts of task a are pairwise different.
DistinctDestinations(a) ==
    LET all == UNION {{<<d, x>> : x \in DOMAIN a.Dependencies[d].Artifacts} :
                        d \in DOMAIN a.Dependencies}
    IN  \A p, q \in all :
            p # q => a.Dependencies[p[1]].Artifacts[p[2]].To #
                     a.Dependencies[q[1]].Artifacts[q[2]].To

\* C10: two tasks that differ only in the order of their two dependencies,
\* with artifacts of different destination paths, hold the same files when
\* their first command starts.
C10_MergeOrderIndependent ==
    \A m, n \in DOMAIN calls :
        (/\ Reversed(tasks[calls[m].task], tasks[calls[n].task])
         /\ DistinctDestinations(tasks[calls[m].task])
         /\ calls[m].atCommands # NoResult
         /\ calls[n].atCommands # NoResult)
        => calls[m].atCommands = calls[n].atCommands

\* The file of the target that the CopyToContainer of event k wrote.
LandedAt(k) == Join(Dir(events[k].arg), Base(CopyFromOf(k).arg))

\* The copies into the container of call n that succeeded.
CopiesOf(n) ==
    {k \in DOMAIN events : events[k].op = "copyTo" /\ events[k].ok /\ events[k].call = n}

LastRoot == CHOOSE r \in DOMAIN calls :
                calls[r].parent = 0 /\ \A q \in DOMAIN calls : calls[q].parent = 0 => q <= r

\* The last root call has just returned nil.
RootReturnedNil ==
    /\ stack = <<>>
    /\ results # <<>>
    /\ results[Len(results)] = Nil

\* C12: when a root Execute has returned nil, every task of its graph has a
\* container of its deterministic name that exists and is stopped.
C12_TeardownPreserves ==
    RootReturnedNil =>
        \A t \in {calls[LastRoot].task} \cup Descendants(tasks, calls[LastRoot].task) :
            \E id \in DOMAIN containers :
                /\ Exists(containers, id)
                /\ containers[id].name = generateContainerName(tasks, t)
                /\ containers[id].state = "exited"

\* C12's case: the root Execute of a graph of three tasks returned nil.
C12_Witness ==
    /\ RootReturnedNil
    /\ Cardinality({calls[LastRoot].task} \cup Descendants(tasks, calls[LastRoot].task)) = 3

\* The calls of Execute that call n made on its dependencies.
Children(n) == {m \in DOMAIN calls : calls[m].parent = n}

CopyOps == {"copyFrom", "mkdir", "copyTo"}

\* Call d is below call c in the call tree.
RECURSIVE Below(_, _)
Below(d, c) ==
    /\ calls[d].parent # 0
    /\ (calls[d].parent = c \/ Below(calls[d].parent, c))

\* The root call that call n belongs to.
RECURSIVE Root(_)
Root(n) == IF calls[n].parent = 0 THEN n ELSE Root(calls[n].parent)

\* C13: no provider operation of an artifact copy of task T is issued before
\* Execute has returned nil for every dependency of T: every call on a
\* dependency began and ended before the first copy.
C13_TwoPhase ==
    \A k \in DOMAIN events :
        events[k].op \in CopyOps =>
            LET n == events[k].call
                deps == tasks[events[k].task].Dependencies
            IN  /\ Cardinality(Children(n)) = Len(deps)
                /\ \A i \in DOMAIN deps :
                    \E m \in Children(n) : calls[m].task = deps[i].Task
                /\ \A m \in Children(n) :
                    /\ calls[m].returned = <<Nil>>
                    /\ calls[m].begun < k
                    /\ calls[m].ended # 0
                    /\ calls[m].ended < k

\* C13's case: an artifact was copied into a task that has two
\* dependencies.
C13_Witness ==
    \E k \in DOMAIN events :
        /\ events[k].op = "copyTo"
        /\ events[k].ok
        /\ Len(tasks[events[k].task].Dependencies) = 2

\* The artifacts that task t declares, as (dependency, artifact) positions.
DeclaredArtifacts(t) ==
    UNION {{<<d, a>> : a \in DOMAIN tasks[t].Dependencies[d].Artifacts} :
            d \in DOMAIN tasks[t].Dependencies}

\* Those that come before (i, j) in the order of the declarations.
DeclaredBefore(t, i, j) ==
    {x \in DeclaredArtifacts(t) : x[1] < i \/ (x[1] = i /\ x[2] < j)}

\* C14: the calls a call makes on its dependencies are made in the order of
\* Dependencies, each beginning after the one before it has returned with
\* all the calls below it; and the artifacts are copied in the order of the
\* declarations, dependency by dependency and artifact by artifact.
C14_DeclaredOrder ==
    /\ \A n \in DOMAIN calls : \A m \in Children(n) :
        LET i == Cardinality({q \in Children(n) : q <= m})
            deps == tasks[calls[n].task].Dependencies
        IN  /\ i \in DOMAIN deps
            /\ calls[m].task = deps[i].Task
            /\ \A q \in Children(n) :
                q < m => /\ calls[q].ended # 0
                         /\ calls[q].ended <= calls[m].begun
                         /\ \A d \in DOMAIN calls :
                             Below(d, q) => /\ calls[d].ended # 0
                                            /\ calls[d].ended <= calls[q].ended
    /\ \A k \in DOMAIN events :
        events[k].op = "copyFrom" =>
            \A x \in DeclaredBefore(events[k].task, events[k].dep, events[k].art) :
                \E h \in 1..(k - 1) :
                    /\ events[h].op = "copyTo" /\ events[h].ok
                    /\ events[h].call = events[k].call
                    /\ events[h].dep = x[1] /\ events[h].art = x[2]

\* C14's case: a call made two calls on its dependencies, the first of which
\* made a call itself, and then copied two artifacts.
C14_Witness ==
    \E n \in DOMAIN calls :
        /\ Cardinality(Children(n)) = 2
        /\ \E m \in Children(n) : Children(m) # {}
        /\ Cardinality(CopiesOf(n)) = 2

\* The place of a provider operation in the protocol of Execute.
Rank(op) ==
    CASE op = "list" -> 1
      [] op \in {"stop", "remove"} -> 2
      [] op = "imageList" -> 3
      [] op = "pull" -> 4
      [] op = "create" -> 5
      [] op = "start" -> 6
      [] op = "cycleCheck" -> 7
      [] op \in CopyOps -> 8
      [] op = "exec" -> 9
      [] op = "stopOwn" -> 10

\* The provider operations that call n issued itself.
OwnEvents(n) == {k \in DOMAIN events : events[k].call = n}

\* C15: the operations of one call of Execute come in the order reclaim,
\* image check and pull, create (whose id the call records), start, the
\* calls on the dependencies, the copies, the commands, the stop. A command
\* runs only after the container was started and every declared artifact
\* was copied, and the stop is issued only after every command exited 0.
C15_ProtocolOrder ==
    \A n \in DOMAIN calls :
        /\ \A h, k \in OwnEvents(n) :
            h < k => /\ Rank(events[h].op) <= Rank(events[k].op)
                     /\ events[h].ok \/ events[h].op \in {"remove", "cycleCheck"}
                     /\ events[h].op \in {"imageList", "pull", "create", "start", "stopOwn"}
                            => events[k].op # events[h].op
        /\ \A k \in OwnEvents(n) :
            /\ (events[k].op = "create" /\ events[k].ok) => calls[n].cid = events[k].cid
            /\ Rank(events[k].op) >= 6 => events[k].cid = calls[n].cid
                                            \/ events[k].op = "copyFrom"
            /\ Rank(events[k].op) >= 8 =>
                /\ \E h \in OwnEvents(n) : h < k /\ events[h].op = "start" /\ events[h].ok
                /\ \A m \in Children(n) : calls[m].ended # 0 /\ calls[m].ended < k
            /\ events[k].op \in {"exec", "stopOwn"} =>
                \A x \in DeclaredArtifacts(calls[n].task) :
                    \E h \in CopiesOf(n) :
                        h < k /\ events[h].dep = x[1] /\ events[h].art = x[2]
            /\ events[k].op = "stopOwn" =>
                \A c \in DOMAIN tasks[calls[n].task].Commands.elems :
                    \E h \in OwnEvents(n) :
                        /\ h < k /\ events[h].op = "exec" /\ events[h].index = c
                        /\ events[h].ok /\ events[h].code = 0
        /\ \A m \in Children(n) :
            \E h \in OwnEvents(n) :
                h <= calls[m].begun /\ events[h].op = "start" /\ events[h].ok

\* C15's case: a call that pulled the image, called a dependency, copied an
\* artifact and ran a command has stopped its container and returned nil.
C15_Witness ==
    \E n \in DOMAIN calls :
        /\ calls[n].returned = <<Nil>>
        /\ Children(n) # {}
        /\ CopiesOf(n) # {}
        /\ \E k \in OwnEvents(n) : events[k].op = "pull" /\ events[k].ok
        /\ \E k \in OwnEvents(n) : events[k].op = "exec" /\ events[k].ok
        /\ \E k \in OwnEvents(n) : events[k].op = "stopOwn" /\ events[k].ok

\* Operation k is a step of Execute that failed: an image check, pull,
\* create, start, copy or stop that returned an error, or a command that
\* could not be run or exited non-zero.
Failing(k) ==
    \/ /\ events[k].op \in {"list", "stop", "imageList", "pull", "create", "start",
                            "stopOwn"} \cup CopyOps
       /\ ~events[k].ok
    \/ /\ events[k].op = "exec"
       /\ ~events[k].ok \/ events[k].code # 0

\* C16: when a step of a task fails, the root Execute of its run returns a
\* non-nil error with that step: no call of the run begins afterwards, and
\* no operation of any call of the run is issued afterwards.
C16_FirstErrorAborts ==
    \A k \in DOMAIN events :
        Failing(k) =>
            LET r == Root(events[k].call)
            IN  /\ calls[r].returned # NoResult
                /\ calls[r].returned # <<Nil>>
                /\ calls[r].ended = k
                /\ \A m \in DOMAIN calls :
                    Root(m) = r => /\ calls[m].begun < k
                                   /\ calls[m].ended # 0
                                   /\ calls[m].ended <= k
                /\ \A h \in DOMAIN events :
                    h > k => Root(events[h].call) # r

\* C16's case: a step failed in the first of two dependencies of a task
\* that has a command and an artifact still to come, and the caller has gone
\* on to another root.
C16_Witness ==
    \E k \in DOMAIN events :
        /\ Failing(k)
        /\ k < Len(events)
        /\ calls[events[k].call].parent # 0
        /\ LET p == calls[events[k].call].parent
           IN  /\ Len(tasks[calls[p].task].Dependencies) = 2
               /\ Cardinality(Children(p)) = 1
               /\ DeclaredArtifacts(calls[p].task) # {}

\* No reclaim has stopped or removed container id since operation k.
NotReclaimedSince(id, k) ==
    \A h \in DOMAIN events :
        (h > k /\ events[h].cid = id /\ events[h].ok) => events[h].op \notin {"stop", "remove"}

\* C17: after a command of task T exited non-zero, the container of T, until
\* a later Execute reclaims it, exists and is running as it was, and
\* the container of every dependency that T executed exists and is stopped.
C17_NoRollback ==
    \A k \in DOMAIN events :
        (events[k].op = "exec" /\ events[k].ok /\ events[k].code # 0) =>
            LET n == events[k].call
            IN  /\ NotReclaimedSince(calls[n].cid, k) =>
                    /\ Exists(containers, calls[n].cid)
                    /\ containers[calls[n].cid].state = "running"
                /\ \A h \in OwnEvents(n) : events[h].op # "stopOwn"
                /\ \A m \in Children(n) :
                    NotReclaimedSince(calls[m].cid, calls[m].ended) =>
                        /\ Exists(containers, calls[m].cid)
                        /\ containers[calls[m].cid].state = "exited"

\* C17's case: a command of a task exited non-zero after the task had
\* executed a dependency, and the root call has returned.
C17_Witness ==
    /\ stack = <<>>
    /\ \E k \in DOMAIN events :
        /\ events[k].op = "exec" /\ events[k].ok /\ events[k].code # 0
        /\ Children(events[k].call) # {}
        /\ NotReclaimedSince(calls[events[k].call].cid, k)

\* C18: whenever Execute is at the create step for a task, no container of
\* the task's deterministic name exists.
C18_CleanStart ==
    (stack # <<>> /\ Top.pc = "create") => Named(containers, Top.name) = {}

\* C19: when the stop or the removal of a container fails in the reclaim,
\* the call of Execute does not return with that failure.
C19_ReclaimBestEffort ==
    \A k \in DOMAIN events :
        (events[k].op \in {"stop", "remove"} /\ ~events[k].ok) =>
            calls[events[k].call].ended # k

\* C20: a call of Execute pulls the image exactly when its image check
\* succeeded and reported the image absent: after a check that found the
\* image comes the create and no pull; a failed check ends the call without
\* a pull and without a create; every pull follows such a check.
C20_PullOnlyWhenAbsent ==
    \A k \in DOMAIN events :
        LET n == events[k].call
        IN  /\ (events[k].op = "imageList" /\ ~events[k].ok) =>
                /\ calls[n].ended = k
                /\ \A h \in OwnEvents(n) : events[h].op \notin {"pull", "create"}
            /\ (events[k].op = "imageList" /\ events[k].ok) =>
                /\ events[k].present => events[k].arg \in images
                /\ (k = Len(events) /\ ~events[k].present) => events[k].arg \notin images
                /\ k < Len(events) =>
                    /\ events[k + 1].call = n
                    /\ events[k + 1].op = IF events[k].present THEN "create" ELSE "pull"
                /\ events[k].present => \A h \in OwnEvents(n) : events[h].op # "pull"
            /\ events[k].op = "pull" =>
                /\ k > 1
                /\ events[k - 1].op = "imageList"
                /\ events[k - 1].call = n
                /\ events[k - 1].ok
                /\ ~events[k - 1].present

\* C20's case: one call found the image absent and pulled it, a later call
\* found it present and went on to create its container without a pull.
C20_Witness ==
    \E h, k \in DOMAIN events :
        /\ h < k
        /\ k < Len(events)
        /\ events[h].op = "imageList" /\ events[h].ok /\ ~events[h].present
        /\ events[h + 1].op = "pull" /\ events[h + 1].ok
        /\ events[k].op = "imageList" /\ events[k].ok /\ events[k].present
        /\ events[k + 1].op = "create"


\* C21: a cycle found by the check at the entry of
\* executeDependenciesAndCopyArtifacts does not stop the run: whatever the
\* check reported, the call does not return at it, and the next provider
\* operation is the first one of the Execute of the task's first dependency.
C21_CycleFindingNotEnforced ==
    \A k \in DOMAIN events :
        events[k].op = "cycleCheck" =>
            /\ calls[events[k].call].ended # k
            /\ k < Len(events) =>
                /\ events[k + 1].op = "list"
                /\ events[k + 1].task = tasks[events[k].task].Dependencies[1].Task
                /\ calls[events[k + 1].call].parent = events[k].call

\* A cycle was found, and the first dependency is being executed all the same.
C21_Witness ==
    \E k \in DOMAIN events :
        /\ events[k].op = "cycleCheck"
        /\ ~events[k].ok
        /\ k < Len(events)
        /\ events[k + 1].op = "list"
        /\ calls[events[k + 1].call].parent = events[k].call


\* C22: the cycle check of a task comes before any provisioning of its
\* subtree, the task's own container included: a call on a task with
\* dependencies stops, removes, creates or starts a container only after
\* its cycle check was made.
C22_CycleCheckPrecedesProvisioning ==
    \A h \in DOMAIN events :
        (/\ events[h].op \in {"stop", "remove", "create", "start"}
         /\ tasks[events[h].task].Dependencies # <<>>)
        => \E k \in 1..(h - 1) :
            /\ events[k].op = "cycleCheck"
            /\ events[k].call = events[h].call


\* The strings an error names, layer by layer.
Named_in(err) == {err[l].arg : l \in DOMAIN err}

\* C23: the error of a failed artifact copy names the path and the task: the
\* error a call returns when one of its copies failed names the artifact's
\* From or To and the name of the consuming task or of the dependency; and
\* the error a call returns when the Execute of a dependency failed is that
\* call's error wrapped with the dependency's name.
C23_CopyErrorContext ==
    /\ \A k \in DOMAIN events :
        (events[k].op \in CopyOps /\ ~events[k].ok) =>
            LET n == events[k].call
                t == events[k].task
                dep == tasks[t].Dependencies[events[k].dep]
                art == dep.Artifacts[events[k].art]
                err == calls[n].returned[1]
            IN  /\ Named_in(err) \cap {art.From, art.To} # {}
                /\ Named_in(err) \cap {tasks[t].Name, tasks[dep.Task].Name} # {}
    /\ \A c \in DOMAIN calls :
        (/\ calls[c].parent # 0
         /\ calls[c].returned # NoResult
         /\ calls[c].returned # <<Nil>>)
        => calls[calls[c].parent].returned =
              <<Wrap("error executing task dependency", tasks[calls[c].task].Name,
                     calls[c].returned[1])>>


C29_DirectoryBeforeWrite ==
    (/\ events # <<>>
     /\ events[Len(events)].op = "copyTo"
     /\ Dir(events[Len(events)].arg) # <<".">>
     /\ Exists(containers, events[Len(events)].cid))
    => LET e == events[Len(events)]
           d == Abs(Dir(e.arg))
       IN  /\ [cid |-> e.cid, dir |-> d] \notin pending
           /\ d \in containers[e.cid].dirs


\* The successful creates of task t, and those of call n, as positions of
\* the history.
CreatesOfTask(t) ==
    {k \in DOMAIN events : events[k].op = "create" /\ events[k].ok /\ events[k].task = t}

CreatesOfCall(n) ==
    {k \in DOMAIN events : events[k].op = "create" /\ events[k].ok /\ events[k].call = n}

\* C25: a task's containerID is empty until an Execute on the task has
\* created a container, and is from then on the id of the latest container
\* created for the task by an Execute on it: a call writes it at most once,
\* with its successful create and before its start, and a call that fails
\* at the reclaim, the pull or the create leaves it as it was.
C25_ContainerIDLifecycle ==
    /\ \A t \in DOMAIN tasks :
        tasks[t].containerID =
            IF CreatesOfTask(t) = {} THEN 0
            ELSE events[CHOOSE k \in CreatesOfTask(t) :
                            \A h \in CreatesOfTask(t) : h <= k].cid
    /\ \A n \in DOMAIN calls : Cardinality(CreatesOfCall(n)) <= 1
    /\ \A k \in DOMAIN events :
        events[k].op = "start" =>
            \E h \in CreatesOfCall(events[k].call) : h < k /\ events[h].cid = events[k].cid

\* C25's case: a second Execute on a task failed at its create, and the
\* task still records the container of the first.
C25_Witness ==
    \E k \in DOMAIN events :
        /\ events[k].op = "create"
        /\ ~events[k].ok
        /\ CreatesOfTask(events[k].task) # {}
        /\ tasks[events[k].task].containerID # 0


C28_DetectorIsPure ==
    Computed(cycleFree) =>
        /\ tasks = prev
        /\ \A t \in DOMAIN tasks : \A n \in DOMAIN seen[t] :
            LET v == seen[t][n]
            IN  /\ v.path = [i \in 1..Len(v.ancestors) |->
                                generateHash(tasks, v.ancestors[i])]
                /\ IF v.ancestors = <<>> THEN v.task = t
                   ELSE /\ v.ancestors[1] = t
                        /\ Edge(tasks, v.ancestors[Len(v.ancestors)], v.task)
                        /\ \A i \in 1..(Len(v.ancestors) - 1) :
                               Edge(tasks, v.ancestors[i], v.ancestors[i + 1])

\* C28's case: the check of the diamond's root visited the shared task
\* under both siblings, with two different paths.
C28_Witness ==
    /\ Computed(cycleFree)
    /\ tasks = Diamond
    /\ \E m, n \in DOMAIN seen[1] :
        /\ m < n
        /\ seen[1][m].task = 4
        /\ seen[1][n].task = 4
        /\ seen[1][m].ancestors = <<1, 2>>
        /\ seen[1][n].ancestors = <<1, 3>>
        /\ seen[1][m].path # seen[1][n].path


----------------------------------------------------------------------------
(* ExtractFileFromTar: one file out of a tar stream onto the host *)

MaxEntries == 3

\* The entries of a tar stream: regular files (whole, or cut short so that
\* reading the content fails), a directory, and a header that cannot be read.
TarEntries ==
    {[type |-> "reg", content |-> <<"1">>, whole |-> TRUE],
     [type |-> "reg", content |-> <<"2">>, whole |-> TRUE],
     [type |-> "reg", content |-> <<"1">>, whole |-> FALSE],
     [type |-> "dir", content |-> <<>>, whole |-> TRUE],
     [type |-> "bad", content |-> <<>>, whole |-> TRUE]}

\* The hosts a destination is extracted to: an empty one, one that has the
\* destination and another file already, and one where a file is in the way
\* of the destination's directory.
Hosts(dest) ==
    {[files |-> {}, dirs |-> {<<Slash>>}],
     [files |-> {[path |-> Abs(dest), content |-> <<"0">>],
                 [path |-> PathCY, content |-> <<"0">>]},
      dirs |-> Ancestors(Abs(dest)) \cup Ancestors(PathCY)]}
    \cup (IF Abs(Dir(dest)) = <<Slash>> THEN {}
          ELSE {[files |-> {[path |-> Abs(Dir(dest)), content |-> <<"0">>]},
                 dirs |-> Ancestors(Abs(Dir(dest)))]})

\* os.MkdirAll(dir): the directory and those above it, unless a file is in
\* the way.
MkdirAll(h, dir) ==
    LET wanted == Ancestors(Abs(dir)) \cup {Abs(dir)}
    IN  IF \E d \in wanted : HasFile(h.files, d)
        THEN [ok |-> FALSE, host |-> h]
        ELSE [ok |-> TRUE, host |-> [h EXCEPT !.dirs = @ \cup wanted]]

\* os.Create(path): the file, empty, whether it existed or not; an error if
\* the path is a directory or has no directory to be in.
osCreate(h, path) ==
    IF Abs(path) \in h.dirs \/ Abs(Dir(path)) \notin h.dirs
    THEN [ok |-> FALSE, host |-> h]
    ELSE [ok |-> TRUE, host |-> [h EXCEPT !.files = WriteFile(@, Abs(path), <<>>)]]

RECURSIVE extractFromWithoutBreak(_, _, _, _)
RECURSIVE extractFrom(_, _, _, _)

\* A loop that goes on after a regular file was written: every regular file
\* of the stream is written over the one before.
extractFromWithoutBreak(entries, i, h, dest) ==
    IF i > Len(entries) THEN [err |-> Nil, host |-> h, consumed |-> Len(entries)]
    ELSE LET e == entries[i]
             created == osCreate(h, dest)
         IN  IF e.type = "bad"
             THEN [err |-> Err("invalid tar header", <<>>, 0), host |-> h, consumed |-> i]
             ELSE IF e.type # "reg" THEN extractFromWithoutBreak(entries, i + 1, h, dest)
             ELSE IF ~created.ok
             THEN [err |-> Err("open", dest, 0), host |-> h, consumed |-> i]
             ELSE IF ~e.whole
             THEN [err |-> Err("unexpected EOF", <<>>, 0), host |-> created.host,
                   consumed |-> i]
             ELSE extractFromWithoutBreak(entries, i + 1,
                      [created.host EXCEPT !.files = WriteFile(@, Abs(dest), e.content)],
                      dest)

\* The loop of ExtractFileFromTar from entry i on: tr.Next until the end of
\* the stream or an error; an entry that is not a regular file is skipped;
\* the first regular file is created at dest and its content copied, and
\* the loop is left. consumed is the number of headers read.
extractFrom(entries, i, h, dest) ==
    IF i > Len(entries) THEN [err |-> Nil, host |-> h, consumed |-> Len(entries)]
    ELSE LET e == entries[i]
             created == osCreate(h, dest)
         IN  IF e.type = "bad"
             THEN [err |-> Err("invalid tar header", <<>>, 0), host |-> h, consumed |-> i]
             ELSE IF e.type # "reg" THEN extractFrom(entries, i + 1, h, dest)
             ELSE IF ~created.ok
             THEN [err |-> Err("open", dest, 0), host |-> h, consumed |-> i]
             ELSE IF ~e.whole
             THEN [err |-> Err("unexpected EOF", <<>>, 0), host |-> created.host,
                   consumed |-> i]
             ELSE [err |-> Nil,
                   host |-> [created.host EXCEPT
                                !.files = WriteFile(@, Abs(dest), e.content)],
                   consumed |-> i]

\* ExtractFileFromTar(tarReader, destPath): the directory of destPath is
\* made before the stream is read.
ExtractFileFromTar(entries, h, dest) ==
    LET made == MkdirAll(h, Dir(dest))
    IN  IF ~made.ok
        THEN [err |-> Err("mkdir", Dir(dest), 0), host |-> h, consumed |-> 0]
        ELSE extractFrom(entries, 1, made.host, dest)

InitExtract ==
    /\ tasks = <<>>
    /\ prev = tasks
    /\ edit = NoEdit
    /\ nEdits = 0
    /\ names = <<>>
    /\ namesBefore = <<>>
    /\ cycleFree = <<>>
    /\ seen = <<>>
    /\ ExecIdle
    /\ procs = <<>>
    /\ archive \in SeqsUpTo(TarEntries, MaxEntries)
    /\ destPath \in {PathOX, RelX}
    /\ host \in Hosts(destPath)
    /\ extracted = NoResult

\* The caller extracts the stream to destPath; the host as it was is kept
\* with the result.
Extract ==
    /\ extracted = NoResult
    /\ LET r == ExtractFileFromTar(archive, host, destPath)
       IN  /\ host' = r.host
           /\ extracted' = <<[err |-> r.err, consumed |-> r.consumed, before |-> host]>>
    /\ UNCHANGED <<tasks, hashVars, cycleVars, dockerVars, execVars, raceVars,
                   archive, destPath>>

NextExtract == Extract

SpecExtract == InitExtract /\ [][NextExtract]_vars

\* The position of the first regular file of the stream, 0 if it has none.
FirstRegular(entries) ==
    LET regs == {i \in DOMAIN entries : entries[i].type = "reg"}
    IN  IF regs = {} THEN 0 ELSE CHOOSE i \in regs : \A k \in regs : i <= k

\* The stream can be read up to its first regular file, and nothing on the
\* host is in the way of the destination.
Extractable(entries, h, dest) ==
    /\ FirstRegular(entries) # 0
    /\ \A i \in 1..(FirstRegular(entries) - 1) : entries[i].type # "bad"
    /\ \A d \in Ancestors(Abs(Dir(dest))) \cup {Abs(Dir(dest))} : ~HasFile(h.files, d)
    /\ Abs(dest) \notin h.dirs

\* C27: ExtractFileFromTar takes the first regular file: when the stream
\* can be read up to its first regular file, the entries before it are
\* skipped, no header after it is read, destPath holds its content (whatever
\* it held before) in a directory that now exists, the other files of the
\* host are as they were, and the outcome is the same whatever follows the
\* first regular file in the stream.
C27_FirstRegularFile ==
    (extracted # NoResult /\ Extractable(archive, extracted[1].before, destPath)) =>
        LET r == extracted[1]
            first == FirstRegular(archive)
            dest == Abs(destPath)
        IN  /\ r.consumed = first
            /\ Abs(Dir(destPath)) \in host.dirs
            /\ HasFile(host.files, dest)
            /\ archive[first].whole =>
                 /\ r.err = Nil
                 /\ ReadFile(host.files, dest) = archive[first].content
            /\ ~archive[first].whole => r.err # Nil
            /\ {f \in host.files : f.path # dest} = {f \in r.before.files : f.path # dest}
            /\ \A rest \in SeqsUpTo(TarEntries, 1) :
                 ExtractFileFromTar(SubSeq(archive, 1, first) \o rest, r.before, destPath)
                    = [err |-> r.err, host |-> host, consumed |-> r.consumed]

\* C27's case: a directory entry, then two regular files, extracted over an
\* existing file: the destination holds the content of the first of the two.
C27_Witness ==
    /\ extracted # NoResult
    /\ Len(archive) = 3
    /\ archive[1].type = "dir"
    /\ archive[2] = [type |-> "reg", content |-> <<"1">>, whole |-> TRUE]
    /\ archive[3] = [type |-> "reg", content |-> <<"2">>, whole |-> TRUE]
    /\ destPath = PathOX
    /\ HasFile(extracted[1].before.files, PathOX)
    /\ ReadFile(host.files, PathOX) = <<"1">>
    /\ extracted[1].err = Nil


----------------------------------------------------------------------------
(* Two goroutines that Execute one task *)

\* The task both goroutines execute: no dependencies, one command.
RaceTasks == <<Task(A, B, StringSlice(<<WriteCmd(PathOX, "1")>>), <<>>)>>

\* What a goroutine has of its own while it waits: its call stack, the
\* Execute calls it has still to make and what they returned.
Parked(st, rs, res) == [stack |-> st, roots |-> rs, results |-> res]

\* Two goroutines, each about to call Execute on the same task; the image is
\* there and the daemon fails no call of its own accord.
InitRace ==
    /\ tasks = RaceTasks
    /\ prev = tasks
    /\ edit = NoEdit
    /\ nEdits = 0
    /\ names = [t \in DOMAIN tasks |-> NoResult]
    /\ namesBefore = [t \in DOMAIN tasks |-> NoResult]
    /\ cycleFree = [t \in DOMAIN tasks |-> NoResult]
    /\ seen = [t \in DOMAIN tasks |-> <<>>]
    /\ containers = <<>>
    /\ images = {B}
    /\ pending = {}
    /\ stack = <<>>
    /\ roots = <<1>>
    /\ results = <<>>
    /\ nCalls = 0
    /\ failures = MaxFailures
    /\ events = <<>>
    /\ calls = <<>>
    /\ procs = [running |-> 1, parked |-> Parked(<<>>, <<1>>, <<>>)]
    /\ archive = <<>>
    /\ host = [files |-> {}, dirs |-> {}]
    /\ destPath = <<>>
    /\ extracted = NoResult

\* The scheduler lets the other goroutine run: between any two provider
\* calls of the one that ran.
Switch ==
    /\ procs # <<>>
    /\ procs' = [running |-> 3 - procs.running, parked |-> Parked(stack, roots, results)]
    /\ stack' = procs.parked.stack
    /\ roots' = procs.parked.roots
    /\ results' = procs.parked.results
    /\ UNCHANGED <<tasks, hashVars, cycleVars, dockerVars, nCalls, failures, events, calls,
                   extractVars>>

NextRace ==
    \/ CallExecute
    \/ CleanupList
    \/ CleanupStop
    \/ CleanupRemove
    \/ ImageCheck
    \/ Create
    \/ Start
    \/ Command
    \/ StopOwn
    \/ Switch

SpecRace == InitRace /\ [][NextRace]_vars

\* Call m had returned before call n began.
Before(m, n) == calls[m].ended # 0 /\ calls[m].ended <= calls[n].begun

\* Calls m and n ran at the same time.
Overlap(m, n) == m # n /\ ~Before(m, n) /\ ~Before(n, m)

\* Operation k is a reclaim's stop or removal of the container that another
\* call, m, had created and had not returned from.
ReclaimsInUse(k, m) ==
    /\ events[k].op \in {"stop", "remove"}
    /\ events[k].ok
    /\ events[k].call # m
    /\ calls[m].cid = events[k].cid
    /\ \E h \in 1..(k - 1) :
        events[h].op = "create" /\ events[h].ok /\ events[h].call = m
    /\ calls[m].ended = 0 \/ calls[m].ended > k

\* Operation k is a create that failed on the name that the container of
\* another call, m, holds.
CreateConflict(k, m) ==
    /\ events[k].op = "create"
    /\ ~events[k].ok
    /\ events[k].call # m
    /\ calls[m].name = events[k].arg
    /\ \E h \in 1..(k - 1) :
        /\ events[h].op = "create" /\ events[h].ok /\ events[h].call = m
        /\ \A r \in (h + 1)..(k - 1) :
            ~(events[r].op = "remove" /\ events[r].ok /\ events[r].cid = events[h].cid)

\* C26: two Execute calls on one task race only when they run at the same
\* time: a call returns an error, has its container stopped or removed by
\* the other's reclaim before it returned, or fails to create on the name
\* the other's container holds, only if the two calls overlap; one after
\* the other, both return nil.
C26_RaceNeedsOverlap ==
    /\ \A n \in DOMAIN calls :
        (calls[n].returned # NoResult /\ calls[n].returned # <<Nil>>)
        => \E m \in DOMAIN calls : Overlap(m, n)
    /\ \A k \in DOMAIN events : \A m \in DOMAIN calls :
        (ReclaimsInUse(k, m) \/ CreateConflict(k, m)) => Overlap(m, events[k].call)

\* C26's case: an interleaving in which the reclaim of one call removed the
\* container the other call had created and was still using, so that the
\* other call returned an error.
C26_Witness ==
    \E k \in DOMAIN events : \E m \in DOMAIN calls :
        /\ ReclaimsInUse(k, m)
        /\ events[k].op = "remove"
        /\ calls[m].returned # NoResult
        /\ calls[m].returned # <<Nil>>


----------------------------------------------------------------------------
(* Shared tasks, failures on a path, cycles and termination *)

\* No cycle is reachable from any task of the graph.
Acyclic(ts) == \A t \in DOMAIN ts : ~CycleReachable(ts, t)

\* Every command of task u has run in container id and exited 0.
AllCommandsDoneIn(u, id) ==
    \A i \in DOMAIN tasks[u].Commands.elems :
        \E h \in DOMAIN events :
            /\ events[h].op = "exec"
            /\ events[h].cid = id
            /\ events[h].task = u
            /\ events[h].index = i
            /\ events[h].ok
            /\ events[h].code = 0

\* C31: in an acyclic graph with unique task names, shared tasks included,
\* at every provider operation of an artifact copy the dependency's
\* containerID names a container that exists and in which every command of
\* the dependency exited 0, and the copying task's containerID names the
\* running container that its own call created.
C31_CopySourceValid ==
    (/\ Acyclic(tasks)
     /\ UniqueNames(tasks)
     /\ events # <<>>
     /\ events[Len(events)].op \in CopyOps)
    => LET e == events[Len(events)]
           u == tasks[e.task].Dependencies[e.dep].Task
           src == tasks[u].containerID
           dst == tasks[e.task].containerID
       IN  /\ Exists(containers, src)
           /\ AllCommandsDoneIn(u, src)
           /\ Exists(containers, dst)
           /\ containers[dst].state = "running"
           /\ dst = calls[e.call].cid
           /\ e.cid = IF e.op = "copyFrom" THEN src ELSE dst

\* C31's case: an artifact is copied from a task that was executed twice in
\* the run, out of the container of its second execution, the first one's
\* having been removed.
C31_Witness ==
    /\ Acyclic(tasks)
    /\ UniqueNames(tasks)
    /\ events # <<>>
    /\ events[Len(events)].op = "copyFrom"
    /\ events[Len(events)].ok
    /\ \E m, n \in DOMAIN calls :
        /\ m < n
        /\ Root(m) = Root(n)
        /\ Root(n) = Root(events[Len(events)].call)
        /\ calls[m].task = calls[n].task
        /\ calls[n].parent = events[Len(events)].call
        /\ calls[n].cid = events[Len(events)].cid
        /\ ~Exists(containers, calls[m].cid)


\* The number of dependency paths from task t to task u in an acyclic graph;
\* the empty path from a task to itself is one.
RECURSIVE PathCount(_, _, _)
RECURSIVE PathCountFrom(_, _, _, _)
PathCountFrom(ts, t, u, i) ==
    IF i > Len(ts[t].Dependencies) THEN 0
    ELSE PathCount(ts, ts[t].Dependencies[i].Task, u) + PathCountFrom(ts, t, u, i + 1)

PathCount(ts, t, u) == (IF t = u THEN 1 ELSE 0) + PathCountFrom(ts, t, u, 1)

\* The calls on task u in the run of root call r.
Invocations(r, u) == {n \in DOMAIN calls : Root(n) = r /\ calls[n].task = u}

\* C32: a shared task is executed once per path: when a root Execute on an
\* acyclic graph has returned nil, every task was called as often as there
\* are dependency paths to it from the root; each of these calls ran every
\* command of the task in the container it created, each call but the first
\* removed the container of the call before, and the task's containerID is
\* the container of the last call.
C32_ReexecutedPerPath ==
    (RootReturnedNil /\ Acyclic(tasks)) =>
        \A u \in DOMAIN tasks :
            LET inv == Invocations(LastRoot, u)
            IN  /\ Cardinality(inv) = PathCount(tasks, calls[LastRoot].task, u)
                /\ \A n \in inv :
                    /\ calls[n].returned = <<Nil>>
                    /\ \A i \in DOMAIN tasks[u].Commands.elems :
                        \E h \in DOMAIN events :
                            /\ events[h].op = "exec" /\ events[h].call = n
                            /\ events[h].index = i /\ events[h].code = 0
                            /\ events[h].cid = calls[n].cid
                /\ \A m, n \in inv :
                    (m < n /\ \A q \in inv : ~(m < q /\ q < n)) =>
                        /\ calls[m].cid # calls[n].cid
                        /\ \E h \in DOMAIN events :
                            /\ events[h].op = "remove" /\ events[h].ok
                            /\ events[h].call = n
                            /\ events[h].cid = calls[m].cid
                /\ inv # {} =>
                    tasks[u].containerID =
                        calls[CHOOSE n \in inv : \A q \in inv : q <= n].cid

\* C32's case: the root Execute of main's graph returned nil, and the task
\* that two paths lead to was executed twice.
C32_Witness ==
    /\ RootReturnedNil
    /\ Acyclic(tasks)
    /\ \E u \in DOMAIN tasks :
        /\ PathCount(tasks, calls[LastRoot].task, u) = 2
        /\ Cardinality(Invocations(LastRoot, u)) = 2
        /\ tasks[u].Commands.elems # <<>>


\* The calls that returned with the error of root call r: the call whose
\* step failed and the calls it was nested in.
FailedPath(r) == {n \in DOMAIN calls : Root(n) = r /\ calls[n].ended = calls[r].ended}

\* Root call r returned an error.
ReturnedError(r) ==
    /\ calls[r].parent = 0
    /\ calls[r].returned # NoResult
    /\ calls[r].returned # <<Nil>>

\* The container of call n, once started, was not stopped or removed up to
\* the operation at which the run of root call r failed, and is running as
\* long as no later Execute has reclaimed it.
LeftRunning(n, r) ==
    \A s \in OwnEvents(n) :
        (events[s].op = "start" /\ events[s].ok) =>
            /\ \A h \in (s + 1)..calls[r].ended :
                (events[h].cid = calls[n].cid /\ events[h].ok)
                => events[h].op \notin {"stop", "remove", "stopOwn"}
            /\ NotReclaimedSince(calls[n].cid, calls[r].ended) =>
                /\ Exists(containers, calls[n].cid)
                /\ containers[calls[n].cid].state = "running"

Reentry(m, n) ==
    /\ Below(m, n)
    /\ calls[m].task = calls[n].task
    /\ \A q \in DOMAIN calls :
        (Below(m, q) /\ Below(q, n)) => calls[q].task # calls[m].task

\* C34: on a graph with a cycle reachable from the root, Execute on the
\* root returns only after a provider operation of its run failed; and as
\* long as none has failed, a re-entry of a task that is past its reclaim
\* has stopped and removed the container that the outer, still active call
\* on the task created and started.
C34_CyclicNeverCompletes ==
    /\ \A r \in DOMAIN calls :
        (/\ calls[r].parent = 0
         /\ CycleReachable(tasks, calls[r].task)
         /\ calls[r].returned # NoResult)
        => \E k \in DOMAIN events : Root(events[k].call) = r /\ Failing(k)
    /\ failures = 0 =>
        \A m, n \in DOMAIN calls :
            (/\ Reentry(m, n)
             /\ \E h \in OwnEvents(m) : events[h].op = "imageList")
            => /\ calls[n].ended = 0
               /\ calls[n].cid # 0
               /\ ~Exists(containers, calls[n].cid)
               /\ \E h, g \in OwnEvents(m) :
                    /\ h < g
                    /\ events[h].op = "stop" /\ events[h].ok
                    /\ events[h].cid = calls[n].cid
                    /\ events[g].op = "remove" /\ events[g].ok
                    /\ events[g].cid = calls[n].cid

\* C34's case: with no failed provider call, the recursion on the cycle
\* 1 -> 2 -> 1 has re-entered task 1, whose outer container is gone and
\* whose inner call has created and started another; no call has returned.
C34_Witness ==
    /\ failures = 0
    /\ Len(stack) = 3
    /\ stack[1].task = stack[3].task
    /\ stack[2].task # stack[1].task
    /\ stack[3].pc = "dep"
    /\ ~Exists(containers, calls[stack[1].call].cid)
    /\ Exists(containers, calls[stack[3].call].cid)
    /\ containers[calls[stack[3].call].cid].state = "running"
    /\ \A n \in DOMAIN calls : calls[n].returned = NoResult


\* The executor with every provider call returning: the goroutine that
\* executes is never held up for ever, so a step that can be taken is
\* taken in the end.
SpecExecLive == InitExec /\ [][NextExec]_vars /\ WF_vars(NextExec)

\* C35: on an acyclic graph, with every provider call returning, an Execute
\* on a root returns in the end, nil or an error: whenever a call is
\* active, the call stack is empty again later.
C35_TerminatesOnDAG == (Acyclic(tasks) /\ stack # <<>>) ~> (stack = <<>>)

\* C35's case: the caller's Execute on the root of an acyclic graph of
\* three tasks, one of them shared, has returned after the four calls of
\* its run.
C35_Witness ==
    /\ Acyclic(tasks)
    /\ Len(tasks) = 3
    /\ stack = <<>>
    /\ roots = <<>>
    /\ Len(calls) = 4
    /\ calls[1].returned # NoResult


\* C36: Execute writes no field of a task but containerID: at every point of
\* the caller's Execute calls, successful or not, every task is as it was
\* before the first call except for its containerID, generateContainerName
\* of every task is what it was then, and it is the name every call and
\* every create used.
C36_OnlyRuntimeState ==
    /\ DOMAIN tasks = DOMAIN prev
    /\ \A t \in DOMAIN tasks :
        /\ [tasks[t] EXCEPT !.containerID = 0] = prev[t]
        /\ generateContainerName(tasks, t) = generateContainerName(prev, t)
    /\ \A n \in DOMAIN calls : calls[n].name = generateContainerName(prev, calls[n].task)
    /\ \A k \in DOMAIN events :
        events[k].op \in {"list", "create"} =>
            events[k].arg = generateContainerName(prev, events[k].task)

\* C36's case: of two root calls on one task the first returned nil and the
\* second an error, and the task records a container.
C36_Witness ==
    /\ stack = <<>>
    /\ Len(results) = 2
    /\ results[1] = Nil
    /\ results[2] # Nil
    /\ calls[1].task = calls[2].task
    /\ tasks[calls[1].task].containerID # 0
    /\ tasks # prev

====
